---------------------------- MODULE Spec2Model ----------------------------
(***************************************************************************)
(* Resource lifecycle layer of the academic-reader workers.                *)
(*                                                                         *)
(*  - the model cache of the marker / TTS / chandra workers: a module      *)
(*    level global guarded by one threading.Lock (get_or_create, unload,   *)
(*    is_loaded), the chandra load routine first waiting for the vLLM      *)
(*    server;                                                              *)
(*  - the vLLM subprocess manager of the lightonocr worker (start_vllm,    *)
(*    stop_vllm, is_vllm_running, ensure_vllm_ready);                      *)
(*  - the job endpoints of the marker worker (convert, get_job_status,     *)
(*    stream_job_status, cancel_job) with the process manager they call;   *)
(*    the manager's own module is not part of the sources and follows the  *)
(*    orchestrator's written contract;                                     *)
(*  - the serverless handlers of the marker and chandra workers and of the *)
(*    first worker (handler.py): one invocation at a time, from the input  *)
(*    checks to the returned payload.                                      *)
(*                                                                         *)
(* Every Python statement that reads or writes shared state is one step of *)
(* the calling thread; `with lock:` is an acquire step and a release step. *)
(* Time is counted in whole seconds since the start of a polling loop.     *)
(***************************************************************************)
EXTENDS Integers, FiniteSets, Sequences, TLC

(* ------------------------------ bounds -------------------------------- *)
\* threads calling into one module concurrently
NThreads == 2
\* calls made to the model cache module in one run
MaxCalls == 5
\* the timeout wait_for_vllm_server runs with (the code's default is 300 s)
WaitTimeout == 3
\* calls made to the vLLM manager in one run
MaxVCalls == 3
\* start_vllm(timeout) is called with 1..MaxTimeout seconds; ensure_vllm_ready
\* calls it with the default (300 s in the code, MaxTimeout here)
MaxTimeout == 3
\* request handlers of the job endpoints that run at the same time
NClients == 2
\* jobs POST /convert creates in one run
MaxJobs == 1
\* progress events the conversion subprocesses emit in one run
MaxEvents == 2
\* requests made to the job endpoints in one run
MaxReqs == 3
\* requests and progress events of one run of the job endpoints, together
MaxSteps == 5
\* invocations of the serverless handler in one run
MaxInvocations == 2

(* ------------------------- program constants -------------------------- *)
\* time.sleep(2) between two health probes
SleepSecs == 2
\* httpx.get(..., timeout=5): a probe answers or fails within 5 s
ProbeTimeout == 5

Threads == 1..NThreads
Workers == {"marker", "chandra"}

\* values of the global _model_cache / _manager_cache
None == 0
\* the global name after `del _model_cache` and before `_model_cache = None`
Unbound == -1
IsHandle(v) == v >= 1

VARIABLES
    worker,        \* which worker's models.py this process runs
    model_cache,   \* _model_cache / _manager_cache
    model_lock,    \* _model_lock / _manager_lock: 0 free, else the owner
    pc,            \* cache module: position of each thread
    op,            \* cache module: the function each thread is in
    res,           \* cache module: outcome of the thread's last call
    hnd,           \* cache module: handle returned by the last get_or_create
    loading,       \* id of the load a thread has in flight (0: none)
    elapsed,       \* wait_for_vllm_server: time.time() - start
    serverUp,      \* the vLLM server answers GET /models with 200
    loadRuns,      \* history: executions of the load routine started
    loadsOk,       \* history: load routines that returned a handle
    loadFails,     \* history: load routines that raised
    unloads,       \* history: times unload cleared a loaded cache
    calls,         \* history: calls made so far
    gocReturned,   \* history: handles returned by get_or_create
    unloadTrue     \* history: unload calls that returned True

cacheVars == <<worker, model_cache, model_lock, pc, op, res, hnd, loading,
               elapsed, serverUp, loadRuns, loadsOk, loadFails, unloads,
               calls, gocReturned, unloadTrue>>

VARIABLES
    vllm_process,  \* _vllm_process: None or the Popen handle (a process id)
    vllm_lock,     \* _vllm_lock: 0 free, else the owner
    vpc,           \* vLLM manager: position of each thread
    vop,           \* vLLM manager: the function each thread is in
    vres,          \* vLLM manager: outcome of the thread's last call
    timeout,       \* start_vllm: its timeout argument
    velapsed,      \* start_vllm: time.time() - start_time
    iterAt,        \* history: velapsed when the current loop iteration began
    iters,         \* history: loop iterations begun by the current start
    iterAlive,     \* history: poll() was None in the current iteration
    myProc,        \* history: the process this call spawned or signalled
    sent,          \* history: signals the current stop_vllm call has sent
    procState,     \* the operating system's view of each spawned process
    spawnCount,    \* history: subprocess.Popen calls that returned
    passedProbe,   \* history: tracked processes a start_vllm probe found ready
    stoppedProcs,  \* history: processes stop_vllm signalled and cleared
    vcalls,        \* history: calls made so far
    graceExpired   \* history: wait(timeout=30) of the current stop_vllm expired

vllmVars == <<vllm_process, vllm_lock, vpc, vop, vres, timeout, velapsed,
              iterAt, iters, iterAlive, myProc, sent, procState, spawnCount,
              passedProbe, stoppedProcs, vcalls, graceExpired>>

\* what the actions of one module leave alone
\* ---- the job endpoints of the marker worker (main.py) ----
VARIABLES
    jobs,             \* the process manager's registry: job id -> job record
    queue,            \* get_queue(job_id): progress events not yet consumed
    proc,             \* the conversion subprocess of each job
    slot,             \* the outcome a subprocess posted, not yet recorded
    emitted,          \* history: progress events a subprocess has emitted
    nextJob,          \* history: job ids handed out by uuid4 so far
    reqs,             \* history: requests the endpoints have taken
    loop,             \* the request handler running on the event loop, or 0
    hpc,              \* position of each request handler
    hop,              \* endpoint each request handler serves
    hjob,             \* job_id path parameter of the request
    hseen,            \* job["status"] as the handler read it
    hresult,          \* job["result"] as the handler read it
    hres,             \* the HTTP response of the request
    frames,           \* events the stream has yielded, in order
    html_ready_sent,  \* stream_job_status: html_ready_sent
    success           \* cancel_job: success

regVars == <<jobs, queue, proc, slot, emitted, nextJob>>

handlerVars == <<loop, hpc, hop, hjob, hseen, hresult, hres, frames,
                 html_ready_sent, success>>

jobVars == <<regVars, handlerVars, reqs>>

\* ---- the serverless handlers (handler.py) ----
VARIABLES
    svc,              \* which worker's handler.py this process runs
    spos,             \* position of the handler invocation
    job_input,        \* job["input"]: which fields the request carries
    job_id,           \* job["id"]
    payload,          \* what the invocation returned, or "raise"
    webhook_callback, \* progress module: the callback installed, by job id
    temp_files,       \* temporary input files on disk, by job id
    temp_path,        \* temp_path, assigned once the download has succeeded
    did,              \* history: what the invocation has gone through
    invocations       \* history: invocations so far

serverlessVars == <<svc, spos, job_input, job_id, payload, webhook_callback,
                    temp_files, temp_path, did, invocations>>

outsideCache == <<vllmVars, jobVars, serverlessVars>>
outsideVllm == <<cacheVars, jobVars, serverlessVars>>
outsideJobs == <<cacheVars, vllmVars, serverlessVars>>
outsideServerless == <<cacheVars, vllmVars, jobVars>>

vars == <<cacheVars, vllmVars, jobVars, serverlessVars>>

(* =========================== the model cache ========================== *)

CacheInit ==
    /\ worker \in Workers
    /\ model_cache = None
    /\ model_lock = 0
    /\ pc = [t \in Threads |-> "idle"]
    /\ op = [t \in Threads |-> "none"]
    /\ res = [t \in Threads |-> "none"]
    /\ hnd = [t \in Threads |-> None]
    /\ loading = [t \in Threads |-> 0]
    /\ elapsed = [t \in Threads |-> 0]
    /\ serverUp = FALSE
    /\ loadRuns = 0
    /\ loadsOk = 0
    /\ loadFails = 0
    /\ unloads = 0
    /\ calls = 0
    /\ gocReturned = {}
    /\ unloadTrue = 0

\* a thread enters get_or_create_models / get_or_create_model / get_or_create_manager
CallGetOrCreate(t) ==
    /\ pc[t] = "idle"
    /\ calls < MaxCalls
    /\ calls' = calls + 1
    /\ pc' = [pc EXCEPT ![t] = "lock"]
    /\ op' = [op EXCEPT ![t] = "get_or_create"]
    /\ res' = [res EXCEPT ![t] = "pending"]
    /\ hnd' = [hnd EXCEPT ![t] = None]
    /\ UNCHANGED <<outsideCache, worker, model_cache, model_lock, loading, elapsed, serverUp,
                   loadRuns, loadsOk, loadFails, unloads, gocReturned, unloadTrue>>

\* a thread enters unload_models / unload_model (the chandra module has none)
CallUnload(t) ==
    /\ pc[t] = "idle"
    /\ worker # "chandra"
    /\ calls < MaxCalls
    /\ calls' = calls + 1
    /\ pc' = [pc EXCEPT ![t] = "lock"]
    /\ op' = [op EXCEPT ![t] = "unload"]
    /\ res' = [res EXCEPT ![t] = "pending"]
    /\ hnd' = [hnd EXCEPT ![t] = None]
    /\ UNCHANGED <<outsideCache, worker, model_cache, model_lock, loading, elapsed, serverUp,
                   loadRuns, loadsOk, loadFails, unloads, gocReturned, unloadTrue>>

\* `with _model_lock:` on entry: blocks until the lock is free
AcquireNoLock(t) ==
    /\ pc[t] = "lock"
    /\ model_lock' = t
    /\ pc' = [pc EXCEPT ![t] = IF op[t] = "unload" THEN "unl_check" ELSE "goc_check"]
    /\ UNCHANGED <<outsideCache, worker, model_cache, op, res, hnd, loading, elapsed, serverUp,
                   loadRuns, loadsOk, loadFails, unloads, calls,
                   gocReturned, unloadTrue>>

AcquireModelLock(t) ==
    /\ pc[t] = "lock"
    /\ model_lock = 0
    /\ model_lock' = t
    /\ pc' = [pc EXCEPT ![t] = IF op[t] = "unload" THEN "unl_check" ELSE "goc_check"]
    /\ UNCHANGED <<outsideCache, worker, model_cache, op, res, hnd, loading, elapsed, serverUp,
                   loadRuns, loadsOk, loadFails, unloads, calls,
                   gocReturned, unloadTrue>>

\* a get_or_create that loads without looking at the cache first
GocCheckAlwaysLoad(t) ==
    /\ pc[t] = "goc_check"
    /\ loadRuns' = loadRuns + 1
    /\ loading' = [loading EXCEPT ![t] = loadRuns + 1]
    /\ elapsed' = [elapsed EXCEPT ![t] = 0]
    /\ pc' = [pc EXCEPT ![t] = IF worker = "chandra" THEN "wait_loop" ELSE "goc_load"]
    /\ UNCHANGED <<outsideCache, worker, model_cache, model_lock, op, res, hnd, serverUp,
                   loadsOk, loadFails, unloads, calls, gocReturned, unloadTrue>>

\* `if _model_cache is None:`; the load routine starts when it is
GocCheck(t) ==
    /\ pc[t] = "goc_check"
    /\ IF model_cache = None
         THEN /\ loadRuns' = loadRuns + 1
              /\ loading' = [loading EXCEPT ![t] = loadRuns + 1]
              /\ elapsed' = [elapsed EXCEPT ![t] = 0]
              /\ pc' = [pc EXCEPT ![t] =
                           IF worker = "chandra" THEN "wait_loop" ELSE "goc_load"]
         ELSE /\ pc' = [pc EXCEPT ![t] = "goc_return"]
              /\ UNCHANGED <<loadRuns, loading, elapsed>>
    /\ UNCHANGED <<outsideCache, worker, model_cache, model_lock, op, res, hnd, serverUp,
                   loadsOk, loadFails, unloads, calls,
                   gocReturned, unloadTrue>>

\* wait_for_vllm_server: `while time.time() - start < timeout:`, and the
\* RuntimeError after the loop, which leaves get_or_create_manager through
\* the with block
WaitLoop(t) ==
    /\ pc[t] = "wait_loop"
    /\ IF elapsed[t] < WaitTimeout
         THEN /\ pc' = [pc EXCEPT ![t] = "wait_probe"]
              /\ UNCHANGED <<res, loading, loadFails>>
         ELSE /\ pc' = [pc EXCEPT ![t] = "release"]
              /\ res' = [res EXCEPT ![t] = "raise"]
              /\ loading' = [loading EXCEPT ![t] = 0]
              /\ loadFails' = loadFails + 1
    /\ UNCHANGED <<outsideCache, worker, model_cache, model_lock, op, hnd, elapsed, serverUp,
                   loadRuns, loadsOk, unloads, calls, gocReturned, unloadTrue>>

\* wait_for_vllm_server: httpx.get(.../models, timeout=5.0); 200 returns,
\* any other status and httpx.RequestError fall through to the sleep
WaitProbe(t) ==
    /\ pc[t] = "wait_probe"
    /\ \E d \in 0..ProbeTimeout :
          elapsed' = [elapsed EXCEPT ![t] = elapsed[t] + d]
    /\ pc' = [pc EXCEPT ![t] = IF serverUp THEN "goc_load" ELSE "wait_sleep"]
    /\ UNCHANGED <<outsideCache, worker, model_cache, model_lock, op, res, hnd, loading,
                   serverUp, loadRuns, loadsOk, loadFails, unloads, calls,
                   gocReturned, unloadTrue>>

\* wait_for_vllm_server: time.sleep(2)
WaitSleep(t) ==
    /\ pc[t] = "wait_sleep"
    /\ elapsed' = [elapsed EXCEPT ![t] = elapsed[t] + SleepSecs]
    /\ pc' = [pc EXCEPT ![t] = "wait_loop"]
    /\ UNCHANGED <<outsideCache, worker, model_cache, model_lock, op, res, hnd, loading,
                   serverUp, loadRuns, loadsOk, loadFails, unloads, calls,
                   gocReturned, unloadTrue>>

\* the load routine returns: `_model_cache = create_model_dict()`,
\* `ChatterboxTTS.from_pretrained(device)`, `InferenceManager(method="vllm")`
GocLoadOk(t) ==
    /\ pc[t] = "goc_load"
    /\ model_cache' = loading[t]
    /\ loading' = [loading EXCEPT ![t] = 0]
    /\ loadsOk' = loadsOk + 1
    /\ pc' = [pc EXCEPT ![t] = "goc_return"]
    /\ UNCHANGED <<outsideCache, worker, model_lock, op, res, hnd, elapsed, serverUp,
                   loadRuns, loadFails, unloads, calls, gocReturned, unloadTrue>>

\* a load routine that stores what it could build although it failed
GocLoadRaiseCached(t) ==
    /\ pc[t] = "goc_load"
    /\ model_cache' = loading[t]
    /\ loading' = [loading EXCEPT ![t] = 0]
    /\ loadFails' = loadFails + 1
    /\ res' = [res EXCEPT ![t] = "raise"]
    /\ pc' = [pc EXCEPT ![t] = "release"]
    /\ UNCHANGED <<outsideCache, worker, model_lock, op, hnd, elapsed, serverUp,
                   loadRuns, loadsOk, unloads, calls, gocReturned, unloadTrue>>

\* the load routine raises: the assignment never happens and the exception
\* leaves the with block
GocLoadRaise(t) ==
    /\ pc[t] = "goc_load"
    /\ loading' = [loading EXCEPT ![t] = 0]
    /\ loadFails' = loadFails + 1
    /\ res' = [res EXCEPT ![t] = "raise"]
    /\ pc' = [pc EXCEPT ![t] = "release"]
    /\ UNCHANGED <<outsideCache, worker, model_cache, model_lock, op, hnd, elapsed, serverUp,
                   loadRuns, loadsOk, unloads, calls, gocReturned, unloadTrue>>

\* `return _model_cache`, evaluated inside the with block
GocReturn(t) ==
    /\ pc[t] = "goc_return"
    /\ hnd' = [hnd EXCEPT ![t] = model_cache]
    /\ res' = [res EXCEPT ![t] = "handle"]
    /\ gocReturned' = gocReturned \cup {model_cache}
    /\ pc' = [pc EXCEPT ![t] = "release"]
    /\ UNCHANGED <<outsideCache, worker, model_cache, model_lock, op, loading, elapsed,
                   serverUp, loadRuns, loadsOk, loadFails, unloads, calls, unloadTrue>>

\* unload: `if _model_cache is None: return False`
UnlCheck(t) ==
    /\ pc[t] = "unl_check"
    /\ IF model_cache = None
         THEN /\ res' = [res EXCEPT ![t] = "False"]
              /\ pc' = [pc EXCEPT ![t] = "release"]
         ELSE /\ pc' = [pc EXCEPT ![t] = "unl_del"]
              /\ UNCHANGED res
    /\ UNCHANGED <<outsideCache, worker, model_cache, model_lock, op, hnd, loading, elapsed,
                   serverUp, loadRuns, loadsOk, loadFails, unloads, calls,
                   gocReturned, unloadTrue>>

\* unload: `del _model_cache` removes the global name
UnlDel(t) ==
    /\ pc[t] = "unl_del"
    /\ model_cache' = Unbound
    /\ unloads' = unloads + 1
    /\ pc' = [pc EXCEPT ![t] = "unl_assign"]
    /\ UNCHANGED <<outsideCache, worker, model_lock, op, res, hnd, loading, elapsed, serverUp,
                   loadRuns, loadsOk, loadFails, calls, gocReturned, unloadTrue>>

\* unload: `_model_cache = None`
UnlAssign(t) ==
    /\ pc[t] = "unl_assign"
    /\ model_cache' = None
    /\ pc' = [pc EXCEPT ![t] = "unl_free"]
    /\ UNCHANGED <<outsideCache, worker, model_lock, op, res, hnd, loading, elapsed, serverUp,
                   loadRuns, loadsOk, loadFails, unloads, calls, gocReturned,
                   unloadTrue>>

\* an unload that reports False whatever it did
UnlFreeFalse(t) ==
    /\ pc[t] = "unl_free"
    /\ res' = [res EXCEPT ![t] = "False"]
    /\ pc' = [pc EXCEPT ![t] = "release"]
    /\ UNCHANGED <<outsideCache, worker, model_cache, model_lock, op, hnd, loading, elapsed,
                   serverUp, loadRuns, loadsOk, loadFails, unloads, calls,
                   gocReturned, unloadTrue>>

\* unload: torch.cuda.empty_cache(); `return True`
UnlFree(t) ==
    /\ pc[t] = "unl_free"
    /\ res' = [res EXCEPT ![t] = "True"]
    /\ unloadTrue' = unloadTrue + 1
    /\ pc' = [pc EXCEPT ![t] = "release"]
    /\ UNCHANGED <<outsideCache, worker, model_cache, model_lock, op, hnd, loading, elapsed,
                   serverUp, loadRuns, loadsOk, loadFails, unloads, calls,
                   gocReturned>>

\* leaving `with _model_lock:` by return or by exception releases the lock
ReleaseModelLock(t) ==
    /\ pc[t] = "release"
    /\ model_lock' = 0
    /\ pc' = [pc EXCEPT ![t] = "idle"]
    /\ elapsed' = [elapsed EXCEPT ![t] = 0]
    /\ UNCHANGED <<outsideCache, worker, model_cache, op, res, hnd, loading, serverUp,
                   loadRuns, loadsOk, loadFails, unloads, calls, gocReturned,
                   unloadTrue>>

\* is_loaded (marker): reads the global without the lock; between
\* `del _model_cache` and `_model_cache = None` the name is unbound and the
\* read raises NameError
IsLoaded(t) ==
    /\ pc[t] = "idle"
    /\ worker = "marker"
    /\ calls < MaxCalls
    /\ calls' = calls + 1
    /\ op' = [op EXCEPT ![t] = "is_loaded"]
    /\ res' = [res EXCEPT ![t] =
                  IF model_cache = Unbound THEN "raise"
                  ELSE IF model_cache # None THEN "True" ELSE "False"]
    /\ hnd' = [hnd EXCEPT ![t] = None]
    /\ UNCHANGED <<outsideCache, worker, model_cache, model_lock, pc, loading, elapsed,
                   serverUp, loadRuns, loadsOk, loadFails, unloads, gocReturned,
                   unloadTrue>>

\* the vLLM server chandra waits for comes up or goes down
ServerFlip ==
    /\ worker = "chandra"
    /\ serverUp' = ~serverUp
    /\ UNCHANGED <<outsideCache, worker, model_cache, model_lock, pc, op, res, hnd, loading,
                   elapsed, loadRuns, loadsOk, loadFails, unloads, calls,
                   gocReturned, unloadTrue>>

NextCache ==
    \/ \E t \in Threads :
          \/ CallGetOrCreate(t)
          \/ CallUnload(t)
          \/ IsLoaded(t)
          \/ AcquireModelLock(t)
          \/ GocCheck(t)
          \/ WaitLoop(t)
          \/ WaitProbe(t)
          \/ WaitSleep(t)
          \/ GocLoadOk(t)
          \/ GocLoadRaise(t)
          \/ GocReturn(t)
          \/ UnlCheck(t)
          \/ UnlDel(t)
          \/ UnlAssign(t)
          \/ UnlFree(t)
          \/ ReleaseModelLock(t)
    \/ ServerFlip

(* --------------------- properties of the model cache ------------------ *)

\* a thread is between its acquire and its release of the cache lock
InCritical(t) == pc[t] \notin {"idle", "lock"}

\* loads in flight
Loading == {t \in Threads : loading[t] # 0}

\* C1: single-flight load. While nothing has been unloaded and no load has
\* failed, the load routine has run at most once however many threads called
\* get_or_create, and exactly once as soon as one caller has returned; while
\* nothing has been unloaded at most one load has succeeded and all callers
\* returned the one handle that load produced.
C1_SingleFlight ==
    /\ (unloads = 0 /\ loadFails = 0) =>
          /\ loadRuns <= 1
          /\ gocReturned # {} => loadRuns = 1
    /\ unloads = 0 =>
          /\ loadsOk <= 1
          /\ Cardinality(gocReturned) <= 1
          /\ gocReturned # {} => gocReturned = {model_cache}
          /\ \A t \in Threads :
                (op[t] = "get_or_create" /\ res[t] = "handle") =>
                    (IsHandle(hnd[t]) /\ hnd[t] = model_cache)

\* every thread called get_or_create once on the empty cache, all have returned
C1_Witness ==
    /\ calls = NThreads
    /\ unloads = 0 /\ loadFails = 0 /\ loadRuns = 1
    /\ \A t \in Threads :
          pc[t] = "idle" /\ op[t] = "get_or_create" /\ res[t] = "handle"

\* C2: in every interleaving of get_or_create and unload at most one thread is
\* inside a load or an unload, that thread holds the lock, and a get_or_create
\* about to release the lock returns a handle (never None, never the unbound
\* name) that is the handle the cache holds at that moment.
C2_Serialized ==
    /\ Cardinality({t \in Threads : InCritical(t)}) <= 1
    /\ \A t \in Threads : InCritical(t) => model_lock = t
    /\ \A t \in Threads :
          (op[t] = "get_or_create" /\ res[t] = "handle") => IsHandle(hnd[t])
    /\ \A t \in Threads :
          (pc[t] = "release" /\ op[t] = "get_or_create" /\ res[t] = "handle")
              => hnd[t] = model_cache

\* a get_or_create that ran after an unload is about to release the lock while
\* another thread's unload waits for it
C2_Witness ==
    \E t, u \in Threads :
        /\ t # u
        /\ pc[t] = "release" /\ op[t] = "get_or_create" /\ res[t] = "handle"
        /\ pc[u] = "lock" /\ op[u] = "unload"
        /\ unloads >= 1

\* C3: unload returns True exactly once per successful load: the cache holds
\* a handle exactly when one more load succeeded than unloads cleared it, every
\* clearing is reported by exactly one True, an unload that found the cache
\* empty reports False, and the cache is empty whenever an unload returns.
C3_UnloadResult ==
    /\ model_cache = Unbound => \E t \in Threads : pc[t] = "unl_assign"
    /\ loadsOk = unloads + (IF IsHandle(model_cache) THEN 1 ELSE 0)
    /\ unloads = unloadTrue
                  + Cardinality({t \in Threads : pc[t] \in {"unl_assign", "unl_free"}})
    /\ \A t \in Threads :
          (pc[t] = "release" /\ op[t] = "unload") =>
              (model_cache = None /\ res[t] \in {"True", "False"})

\* load, unload (True), unload (False), reload, unload (True)
C3_Witness ==
    /\ unloadTrue = 2
    /\ loadsOk = 2
    /\ \E t, u \in Threads :
          /\ op[t] = "unload" /\ res[t] = "False" /\ pc[t] = "idle"
          /\ op[u] = "unload" /\ res[u] = "True" /\ pc[u] = "release"

\* C4: a load routine that raises (the chandra wait for the server timing out
\* included) leaves the cache empty and the lock released: while no load has
\* succeeded the cache is empty, a get_or_create leaving by exception leaves
\* None behind, the lock is free whenever no thread is inside the with block,
\* every load started has either failed, succeeded or is still in flight, and
\* get_or_create reaches its return statement only with a handle in the cache.
C4_LoadFailureNotCached ==
    /\ loadsOk = 0 => model_cache = None
    /\ \A t \in Threads :
          (pc[t] = "release" /\ op[t] = "get_or_create" /\ res[t] = "raise")
              => model_cache = None
    /\ (\A t \in Threads : ~InCritical(t)) => model_lock = 0
    /\ loadRuns = loadsOk + loadFails + Cardinality(Loading)
    /\ \A t \in Threads : pc[t] = "goc_return" => IsHandle(model_cache)

\* the chandra manager: a load failed, a later get_or_create loaded again and
\* returns the handle
C4_Witness ==
    /\ worker = "chandra"
    /\ loadFails >= 1
    /\ loadRuns = loadFails + 1
    /\ \E t \in Threads :
          pc[t] = "release" /\ op[t] = "get_or_create" /\ res[t] = "handle"

\* this step is a call of is_loaded: the one call that counts as a call and
\* moves no thread
IsLoadedStep == calls' = calls + 1 /\ pc' = pc

\* the thread the call of this step answered
Answered(t) ==
    /\ op'[t] = "is_loaded"
    /\ \A u \in Threads \ {t} : op'[u] = op[u] /\ res'[u] = res[u]

\* C37: is_loaded does not touch the cache lock and runs whoever holds it;
\* it answers True when the cache holds a loaded handle and False
\* otherwise, so False throughout a first load and False once unload has
\* cleared the cache.
C37_IsLoadedBestEffort ==
    [][IsLoadedStep =>
          /\ model_lock' = model_lock
          /\ \E t \in Threads :
                /\ Answered(t)
                /\ res'[t] = IF IsHandle(model_cache) THEN "True" ELSE "False"
                /\ (Loading # {} /\ loadsOk = 0) => res'[t] = "False"
                /\ (unloads > 0 /\ ~IsHandle(model_cache))
                       => res'[t] = "False"]_vars

(* ===================== the vLLM subprocess manager ==================== *)

\* processes the manager has spawned so far; a process is "starting" (alive,
\* GET /models does not answer 200 yet), "serving" (alive and answering 200)
\* or "exited"
Procs == 1..MaxVCalls
Spawned == 1..spawnCount
Alive(p) == procState[p] \in {"starting", "serving"}

\* `_vllm_process is not None and _vllm_process.poll() is None`
IsVllmRunning == vllm_process # None /\ Alive(vllm_process)

\* httpx.get(f"{VLLM_BASE_URL}/models") answers 200: some process serves port 8000
HealthOk == \E p \in Spawned : procState[p] = "serving"

\* the thread is in start_vllm, called directly or by ensure_vllm_ready
InStart(t) == vop[t] \in {"start", "ensure_start"}

VllmInit ==
    /\ vllm_process = None
    /\ vllm_lock = 0
    /\ vpc = [t \in Threads |-> "idle"]
    /\ vop = [t \in Threads |-> "none"]
    /\ vres = [t \in Threads |-> "none"]
    /\ timeout = [t \in Threads |-> 0]
    /\ velapsed = [t \in Threads |-> 0]
    /\ iterAt = [t \in Threads |-> 0]
    /\ iters = [t \in Threads |-> 0]
    /\ iterAlive = [t \in Threads |-> FALSE]
    /\ myProc = [t \in Threads |-> 0]
    /\ sent = [t \in Threads |-> {}]
    /\ procState = [p \in Procs |-> "unborn"]
    /\ spawnCount = 0
    /\ passedProbe = {}
    /\ stoppedProcs = {}
    /\ vcalls = 0
    /\ graceExpired = [t \in Threads |-> FALSE]

\* a thread calls start_vllm(timeout); the argument is first read by the
\* loop condition and is drawn where the loop is entered
CallStart(t) ==
    /\ vpc[t] = "idle"
    /\ vcalls < MaxVCalls
    /\ vcalls' = vcalls + 1
    /\ vop' = [vop EXCEPT ![t] = "start"]
    /\ vres' = [vres EXCEPT ![t] = "pending"]
    /\ vpc' = [vpc EXCEPT ![t] = "lock"]
    /\ UNCHANGED <<outsideVllm, graceExpired, vllm_process, vllm_lock, timeout, velapsed, iterAt,
                   iters, iterAlive, myProc, sent, procState, spawnCount,
                   passedProbe, stoppedProcs>>

\* a thread calls stop_vllm()
CallStop(t) ==
    /\ vpc[t] = "idle"
    /\ vcalls < MaxVCalls
    /\ vcalls' = vcalls + 1
    /\ vop' = [vop EXCEPT ![t] = "stop"]
    /\ vres' = [vres EXCEPT ![t] = "pending"]
    /\ vpc' = [vpc EXCEPT ![t] = "lock"]
    /\ UNCHANGED <<outsideVllm, graceExpired, vllm_process, vllm_lock, timeout, velapsed,
                   iterAt, iters, iterAlive, myProc, sent, procState,
                   spawnCount, passedProbe, stoppedProcs>>

\* a thread calls is_vllm_running()
CallIsRunning(t) ==
    /\ vpc[t] = "idle"
    /\ vcalls < MaxVCalls
    /\ vcalls' = vcalls + 1
    /\ vop' = [vop EXCEPT ![t] = "is_running"]
    /\ vres' = [vres EXCEPT ![t] = "pending"]
    /\ vpc' = [vpc EXCEPT ![t] = "lock"]
    /\ UNCHANGED <<outsideVllm, graceExpired, vllm_process, vllm_lock, timeout, velapsed,
                   iterAt, iters, iterAlive, myProc, sent, procState,
                   spawnCount, passedProbe, stoppedProcs>>

\* a thread calls ensure_vllm_ready(), which begins with is_vllm_running()
CallEnsure(t) ==
    /\ vpc[t] = "idle"
    /\ vcalls < MaxVCalls
    /\ vcalls' = vcalls + 1
    /\ vop' = [vop EXCEPT ![t] = "ensure"]
    /\ vres' = [vres EXCEPT ![t] = "pending"]
    /\ vpc' = [vpc EXCEPT ![t] = "lock"]
    /\ UNCHANGED <<outsideVllm, graceExpired, vllm_process, vllm_lock, timeout, velapsed,
                   iterAt, iters, iterAlive, myProc, sent, procState,
                   spawnCount, passedProbe, stoppedProcs>>

\* an entry into the with block that does not wait for the lock
AcquireVllmNoLock(t) ==
    /\ vpc[t] = "lock"
    /\ vllm_lock' = t
    /\ vpc' = [vpc EXCEPT ![t] =
                  IF InStart(t) THEN "st_check"
                  ELSE IF vop[t] = "stop" THEN "sp_check" ELSE "ir_check"]
    /\ UNCHANGED <<outsideVllm, graceExpired, vllm_process, vop, vres, timeout, velapsed,
                   iterAt, iters, iterAlive, myProc, sent, procState,
                   spawnCount, passedProbe, stoppedProcs, vcalls>>

\* `with _vllm_lock:` on entry
AcquireVllmLock(t) ==
    /\ vpc[t] = "lock"
    /\ vllm_lock = 0
    /\ vllm_lock' = t
    /\ vpc' = [vpc EXCEPT ![t] =
                  IF InStart(t) THEN "st_check"
                  ELSE IF vop[t] = "stop" THEN "sp_check" ELSE "ir_check"]
    /\ UNCHANGED <<outsideVllm, graceExpired, vllm_process, vop, vres, timeout, velapsed,
                   iterAt, iters, iterAlive, myProc, sent, procState,
                   spawnCount, passedProbe, stoppedProcs, vcalls>>

\* a start that spawns without looking at the tracked process
StCheckAlwaysSpawn(t) ==
    /\ vpc[t] = "st_check"
    /\ vpc' = [vpc EXCEPT ![t] = "st_spawn"]
    /\ velapsed' = [velapsed EXCEPT ![t] = 0]
    /\ UNCHANGED <<outsideVllm, graceExpired, vllm_process, vllm_lock, vop, vres, timeout,
                   iterAt, iters, iterAlive, myProc, sent, procState,
                   spawnCount, passedProbe, stoppedProcs, vcalls>>

\* a start that, when called by ensure_vllm_ready, relies on the answer
\* is_vllm_running gave before the lock was released
StCheckTrustsEnsure(t) ==
    /\ vpc[t] = "st_check"
    /\ IF IsVllmRunning /\ vop[t] # "ensure_start"
         THEN /\ vres' = [vres EXCEPT ![t] = "False"]
              /\ vpc' = [vpc EXCEPT ![t] = "release"]
              /\ UNCHANGED velapsed
         ELSE /\ vpc' = [vpc EXCEPT ![t] = "st_spawn"]
              /\ velapsed' = [velapsed EXCEPT ![t] = 0]
              /\ UNCHANGED vres
    /\ UNCHANGED <<outsideVllm, graceExpired, vllm_process, vllm_lock, vop, timeout, iterAt,
                   iters, iterAlive, myProc, sent, procState, spawnCount,
                   passedProbe, stoppedProcs, vcalls>>

\* start_vllm: `if _vllm_process is not None and _vllm_process.poll() is None:
\* return False`; otherwise `start_time = time.time()`
StCheck(t) ==
    /\ vpc[t] = "st_check"
    /\ IF IsVllmRunning
         THEN /\ vres' = [vres EXCEPT ![t] = "False"]
              /\ vpc' = [vpc EXCEPT ![t] = "release"]
              /\ UNCHANGED velapsed
         ELSE /\ vpc' = [vpc EXCEPT ![t] = "st_spawn"]
              /\ velapsed' = [velapsed EXCEPT ![t] = 0]
              /\ UNCHANGED vres
    /\ UNCHANGED <<outsideVllm, graceExpired, vllm_process, vllm_lock, vop, timeout, iterAt,
                   iters, iterAlive, myProc, sent, procState, spawnCount,
                   passedProbe, stoppedProcs, vcalls>>

\* start_vllm: `_vllm_process = subprocess.Popen([...])`
StSpawn(t) ==
    /\ vpc[t] = "st_spawn"
    /\ spawnCount' = spawnCount + 1
    /\ procState' = [procState EXCEPT ![spawnCount + 1] = "starting"]
    /\ vllm_process' = spawnCount + 1
    /\ myProc' = [myProc EXCEPT ![t] = spawnCount + 1]
    /\ IF vop[t] = "start"
         THEN \E to \in 1..MaxTimeout : timeout' = [timeout EXCEPT ![t] = to]
         ELSE timeout' = [timeout EXCEPT ![t] = MaxTimeout]
    /\ vpc' = [vpc EXCEPT ![t] = "st_loop"]
    /\ UNCHANGED <<outsideVllm, graceExpired, vllm_lock, vop, vres, velapsed, iterAt, iters,
                   iterAlive, sent, passedProbe, stoppedProcs, vcalls>>

\* start_vllm: subprocess.Popen raises (no vllm executable): nothing is
\* assigned and the exception leaves the with block
StSpawnRaise(t) ==
    /\ vpc[t] = "st_spawn"
    /\ vres' = [vres EXCEPT ![t] = "raise_spawn"]
    /\ vpc' = [vpc EXCEPT ![t] = "release"]
    /\ UNCHANGED <<outsideVllm, graceExpired, vllm_process, vllm_lock, vop, timeout,
                   velapsed, iterAt, iters, iterAlive, myProc, sent, procState,
                   spawnCount, passedProbe, stoppedProcs, vcalls>>

\* a polling loop that begins one more iteration at the deadline
StLoopOffByOne(t) ==
    /\ vpc[t] = "st_loop"
    /\ IF velapsed[t] <= timeout[t]
         THEN /\ vpc' = [vpc EXCEPT ![t] = "st_poll"]
              /\ iterAt' = [iterAt EXCEPT ![t] = velapsed[t]]
              /\ iters' = [iters EXCEPT ![t] = iters[t] + 1]
              /\ iterAlive' = [iterAlive EXCEPT ![t] = FALSE]
              /\ UNCHANGED vres
         ELSE /\ vres' = [vres EXCEPT ![t] = "raise_timeout"]
              /\ vpc' = [vpc EXCEPT ![t] = "release"]
              /\ UNCHANGED <<iterAt, iters, iterAlive>>
    /\ UNCHANGED <<outsideVllm, graceExpired, vllm_process, vllm_lock, vop, timeout,
                   velapsed, myProc, sent, procState, spawnCount, passedProbe,
                   stoppedProcs, vcalls>>

\* start_vllm: `while time.time() - start_time < timeout:` and, after the
\* loop, `raise RuntimeError("vLLM server did not start in time")`
StLoop(t) ==
    /\ vpc[t] = "st_loop"
    /\ IF velapsed[t] < timeout[t]
         THEN /\ vpc' = [vpc EXCEPT ![t] = "st_poll"]
              /\ iterAt' = [iterAt EXCEPT ![t] = velapsed[t]]
              /\ iters' = [iters EXCEPT ![t] = iters[t] + 1]
              /\ iterAlive' = [iterAlive EXCEPT ![t] = FALSE]
              /\ UNCHANGED vres
         ELSE /\ vres' = [vres EXCEPT ![t] = "raise_timeout"]
              /\ vpc' = [vpc EXCEPT ![t] = "release"]
              /\ UNCHANGED <<iterAt, iters, iterAlive>>
    /\ UNCHANGED <<outsideVllm, graceExpired, vllm_process, vllm_lock, vop, timeout,
                   velapsed, myProc, sent, procState, spawnCount, passedProbe,
                   stoppedProcs, vcalls>>

\* a polling loop that probes without looking at the process first
StPollSkipped(t) ==
    /\ vpc[t] = "st_poll"
    /\ vpc' = [vpc EXCEPT ![t] = "st_probe"]
    /\ UNCHANGED <<outsideVllm, graceExpired, vllm_process, vllm_lock, vop, vres, timeout,
                   velapsed, iterAt, iters, iterAlive, myProc, sent, procState,
                   spawnCount, passedProbe, stoppedProcs, vcalls>>

\* start_vllm: `if _vllm_process.poll() is not None: raise RuntimeError("vLLM
\* process died unexpectedly")`
StPoll(t) ==
    /\ vpc[t] = "st_poll"
    /\ IF Alive(vllm_process)
         THEN /\ iterAlive' = [iterAlive EXCEPT ![t] = TRUE]
              /\ vpc' = [vpc EXCEPT ![t] = "st_probe"]
              /\ UNCHANGED vres
         ELSE /\ vres' = [vres EXCEPT ![t] = "raise_died"]
              /\ vpc' = [vpc EXCEPT ![t] = "release"]
              /\ UNCHANGED iterAlive
    /\ UNCHANGED <<outsideVllm, graceExpired, vllm_process, vllm_lock, vop, timeout,
                   velapsed, iterAt, iters, myProc, sent, procState,
                   spawnCount, passedProbe, stoppedProcs, vcalls>>

\* a start that reports ready after its first probe whatever the answer
StProbeAlwaysReady(t) ==
    /\ vpc[t] = "st_probe"
    /\ \E d \in 0..ProbeTimeout :
          velapsed' = [velapsed EXCEPT ![t] = velapsed[t] + d]
    /\ vres' = [vres EXCEPT ![t] = "True"]
    /\ vpc' = [vpc EXCEPT ![t] = "release"]
    /\ UNCHANGED <<outsideVllm, graceExpired, vllm_process, vllm_lock, vop, timeout, iterAt,
                   iters, iterAlive, myProc, sent, procState, spawnCount,
                   passedProbe, stoppedProcs, vcalls>>

\* start_vllm: `resp = httpx.get(..., timeout=5)`; status 200 returns True,
\* another status or httpx.RequestError goes on to the sleep
StProbe(t) ==
    /\ vpc[t] = "st_probe"
    /\ \E d \in 0..ProbeTimeout :
          velapsed' = [velapsed EXCEPT ![t] = velapsed[t] + d]
    /\ IF HealthOk
         THEN /\ vres' = [vres EXCEPT ![t] = "True"]
              /\ passedProbe' = passedProbe \cup {vllm_process}
              /\ vpc' = [vpc EXCEPT ![t] = "release"]
         ELSE /\ vpc' = [vpc EXCEPT ![t] = "st_sleep"]
              /\ UNCHANGED <<vres, passedProbe>>
    /\ UNCHANGED <<outsideVllm, graceExpired, vllm_process, vllm_lock, vop, timeout, iterAt,
                   iters, iterAlive, myProc, sent, procState, spawnCount,
                   stoppedProcs, vcalls>>

\* start_vllm: time.sleep(2)
StSleep(t) ==
    /\ vpc[t] = "st_sleep"
    /\ velapsed' = [velapsed EXCEPT ![t] = velapsed[t] + SleepSecs]
    /\ vpc' = [vpc EXCEPT ![t] = "st_loop"]
    /\ UNCHANGED <<outsideVllm, graceExpired, vllm_process, vllm_lock, vop, vres, timeout,
                   iterAt, iters, iterAlive, myProc, sent, procState,
                   spawnCount, passedProbe, stoppedProcs, vcalls>>

\* a stop that forgets the handle of a process it finds exited
SpCheckKeepsDead(t) ==
    /\ vpc[t] = "sp_check"
    /\ IF IsVllmRunning
         THEN /\ vpc' = [vpc EXCEPT ![t] = "sp_term"]
              /\ UNCHANGED vres
         ELSE /\ vres' = [vres EXCEPT ![t] = "False"]
              /\ vpc' = [vpc EXCEPT ![t] = "release"]
    /\ UNCHANGED <<outsideVllm, graceExpired, vllm_process, vllm_lock, vop, timeout,
                   velapsed, iterAt, iters, iterAlive, myProc, sent, procState,
                   spawnCount, passedProbe, stoppedProcs, vcalls>>

\* stop_vllm: `if _vllm_process is None: return False`;
\* `if _vllm_process.poll() is not None: _vllm_process = None; return False`
SpCheck(t) ==
    /\ vpc[t] = "sp_check"
    /\ IF vllm_process = None
         THEN /\ vres' = [vres EXCEPT ![t] = "False"]
              /\ vpc' = [vpc EXCEPT ![t] = "release"]
              /\ UNCHANGED vllm_process
         ELSE IF ~Alive(vllm_process)
         THEN /\ vllm_process' = None
              /\ vres' = [vres EXCEPT ![t] = "False"]
              /\ vpc' = [vpc EXCEPT ![t] = "release"]
         ELSE /\ vpc' = [vpc EXCEPT ![t] = "sp_term"]
              /\ UNCHANGED <<vres, vllm_process>>
    /\ UNCHANGED <<outsideVllm, graceExpired, vllm_lock, vop, timeout, velapsed, iterAt,
                   iters, iterAlive, myProc, sent, procState, spawnCount,
                   passedProbe, stoppedProcs, vcalls>>

\* stop_vllm: `_vllm_process.terminate()` sends SIGTERM
SpTerm(t) ==
    /\ vpc[t] = "sp_term"
    /\ sent' = [sent EXCEPT ![t] = sent[t] \cup {"TERM"}]
    /\ myProc' = [myProc EXCEPT ![t] = vllm_process]
    /\ vpc' = [vpc EXCEPT ![t] = "sp_wait"]
    /\ UNCHANGED <<outsideVllm, graceExpired, vllm_process, vllm_lock, vop, vres, timeout,
                   velapsed, iterAt, iters, iterAlive, procState, spawnCount,
                   passedProbe, stoppedProcs, vcalls>>

\* a stop that kills after the wait whether or not the process has exited
SpWaitAlwaysKill(t) ==
    /\ vpc[t] = "sp_wait"
    /\ graceExpired' = [graceExpired EXCEPT ![t] = Alive(vllm_process)]
    /\ vpc' = [vpc EXCEPT ![t] = "sp_kill"]
    /\ UNCHANGED <<outsideVllm, vllm_process, vllm_lock, vop, vres, timeout,
                   velapsed, iterAt, iters, iterAlive, myProc, sent, procState,
                   spawnCount, passedProbe, stoppedProcs, vcalls>>

\* stop_vllm: `_vllm_process.wait(timeout=30)`: returns when the process has
\* exited, raises subprocess.TimeoutExpired when the grace period ends first
SpWait(t) ==
    /\ vpc[t] = "sp_wait"
    /\ graceExpired' = [graceExpired EXCEPT ![t] = Alive(vllm_process)]
    /\ vpc' = [vpc EXCEPT ![t] =
                  IF Alive(vllm_process) THEN "sp_kill" ELSE "sp_clear"]
    /\ UNCHANGED <<outsideVllm, vllm_process, vllm_lock, vop, vres, timeout,
                   velapsed, iterAt, iters, iterAlive, myProc, sent, procState,
                   spawnCount, passedProbe, stoppedProcs, vcalls>>

\* stop_vllm: `_vllm_process.kill()` sends SIGKILL
SpKill(t) ==
    /\ vpc[t] = "sp_kill"
    /\ sent' = [sent EXCEPT ![t] = sent[t] \cup {"KILL"}]
    /\ vpc' = [vpc EXCEPT ![t] = "sp_wait_kill"]
    /\ UNCHANGED <<outsideVllm, graceExpired, vllm_process, vllm_lock, vop, vres, timeout,
                   velapsed, iterAt, iters, iterAlive, myProc, procState,
                   spawnCount, passedProbe, stoppedProcs, vcalls>>

\* stop_vllm: `_vllm_process.wait(timeout=10)` after the kill; a process not
\* reaped within 10 s raises subprocess.TimeoutExpired out of stop_vllm
SpWaitKill(t) ==
    /\ vpc[t] = "sp_wait_kill"
    /\ IF Alive(vllm_process)
         THEN /\ vres' = [vres EXCEPT ![t] = "raise_expired"]
              /\ vpc' = [vpc EXCEPT ![t] = "release"]
         ELSE /\ vpc' = [vpc EXCEPT ![t] = "sp_clear"]
              /\ UNCHANGED vres
    /\ UNCHANGED <<outsideVllm, graceExpired, vllm_process, vllm_lock, vop, timeout,
                   velapsed, iterAt, iters, iterAlive, myProc, sent, procState,
                   spawnCount, passedProbe, stoppedProcs, vcalls>>

\* stop_vllm: `_vllm_process = None`, torch.cuda.empty_cache(), `return True`
SpClear(t) ==
    /\ vpc[t] = "sp_clear"
    /\ stoppedProcs' = stoppedProcs \cup {vllm_process}
    /\ vllm_process' = None
    /\ vres' = [vres EXCEPT ![t] = "True"]
    /\ vpc' = [vpc EXCEPT ![t] = "release"]
    /\ UNCHANGED <<outsideVllm, graceExpired, vllm_lock, vop, timeout, velapsed, iterAt,
                   iters, iterAlive, myProc, sent, procState, spawnCount,
                   passedProbe, vcalls>>

\* is_vllm_running: `return _vllm_process is not None and
\* _vllm_process.poll() is None`
IrCheck(t) ==
    /\ vpc[t] = "ir_check"
    /\ vres' = [vres EXCEPT ![t] = IF IsVllmRunning THEN "True" ELSE "False"]
    /\ vpc' = [vpc EXCEPT ![t] = "release"]
    /\ UNCHANGED <<outsideVllm, graceExpired, vllm_process, vllm_lock, vop, timeout,
                   velapsed, iterAt, iters, iterAlive, myProc, sent, procState,
                   spawnCount, passedProbe, stoppedProcs, vcalls>>

\* leaving `with _vllm_lock:` by return or by exception hands vres to the
\* caller; ensure_vllm_ready goes on to start_vllm() when is_vllm_running()
\* answered False
ReleaseVllmLock(t) ==
    /\ vpc[t] = "release"
    /\ vllm_lock' = 0
    /\ IF vop[t] = "ensure" /\ vres[t] = "False"
         THEN /\ vop' = [vop EXCEPT ![t] = "ensure_start"]
              /\ vres' = [vres EXCEPT ![t] = "pending"]
              /\ vpc' = [vpc EXCEPT ![t] = "lock"]
         ELSE /\ vop' = [vop EXCEPT ![t] = "none"]
              /\ vres' = [vres EXCEPT ![t] = "none"]
              /\ vpc' = [vpc EXCEPT ![t] = "idle"]
    /\ timeout' = [timeout EXCEPT ![t] = 0]
    /\ velapsed' = [velapsed EXCEPT ![t] = 0]
    /\ iterAt' = [iterAt EXCEPT ![t] = 0]
    /\ iters' = [iters EXCEPT ![t] = 0]
    /\ iterAlive' = [iterAlive EXCEPT ![t] = FALSE]
    /\ myProc' = [myProc EXCEPT ![t] = 0]
    /\ sent' = [sent EXCEPT ![t] = {}]
    /\ graceExpired' = [graceExpired EXCEPT ![t] = FALSE]
    /\ UNCHANGED <<outsideVllm, vllm_process, procState, spawnCount,
                   passedProbe, stoppedProcs, vcalls>>

\* the vLLM server of a spawned process finishes loading and answers 200
ProcServe(p) ==
    /\ p \in Spawned
    /\ procState[p] = "starting"
    /\ procState' = [procState EXCEPT ![p] = "serving"]
    /\ UNCHANGED <<outsideVllm, graceExpired, vllm_process, vllm_lock, vpc, vop, vres,
                   timeout, velapsed, iterAt, iters, iterAlive, myProc, sent,
                   spawnCount, passedProbe, stoppedProcs, vcalls>>

\* a spawned process exits: by itself, by a crash, or after a signal
ProcExit(p) ==
    /\ p \in Spawned
    /\ Alive(p)
    /\ procState' = [procState EXCEPT ![p] = "exited"]
    /\ UNCHANGED <<outsideVllm, graceExpired, vllm_process, vllm_lock, vpc, vop, vres,
                   timeout, velapsed, iterAt, iters, iterAlive, myProc, sent,
                   spawnCount, passedProbe, stoppedProcs, vcalls>>

NextVllm ==
    \/ \E t \in Threads :
          \/ CallStart(t)
          \/ CallStop(t)
          \/ CallIsRunning(t)
          \/ CallEnsure(t)
          \/ AcquireVllmLock(t)
          \/ StCheck(t)
          \/ StSpawn(t)
          \/ StSpawnRaise(t)
          \/ StLoop(t)
          \/ StPoll(t)
          \/ StProbe(t)
          \/ StSleep(t)
          \/ SpCheck(t)
          \/ SpTerm(t)
          \/ SpWait(t)
          \/ SpKill(t)
          \/ SpWaitKill(t)
          \/ SpClear(t)
          \/ IrCheck(t)
          \/ ReleaseVllmLock(t)
    \/ \E p \in Procs : ProcServe(p) \/ ProcExit(p)

(* ------------------- properties of the vLLM manager ------------------- *)

\* the thread is about to leave function f through the with block
Leaving(t, f) == vpc[t] = "release" /\ vop[t] \in f

StartOps == {"start", "ensure_start"}

\* C5: the service is reported as running (is_vllm_running answers True,
\* ensure_vllm_ready does nothing, start_vllm answers False) only if the tracked
\* process has passed a health probe since it was spawned.
C5_ReadyOnlyIfHealthy ==
    \A t \in Threads :
        /\ (Leaving(t, {"is_running", "ensure"}) /\ vres[t] = "True")
               => (vllm_process # None /\ vllm_process \in passedProbe)
        /\ (Leaving(t, StartOps) /\ vres[t] = "False")
               => (vllm_process # None /\ vllm_process \in passedProbe)

\* C6: start_vllm finding the tracked process alive (healthy or not) answers
\* False in that step, spawns nothing and leaves the handle and every process
\* as they were.
C6_StartNoOp ==
    [][\A t \in Threads :
          (vpc[t] = "st_check" /\ vpc'[t] # "st_check" /\ IsVllmRunning) =>
              /\ vres'[t] = "False"
              /\ vpc'[t] = "release"
              /\ vllm_process' = vllm_process
              /\ spawnCount' = spawnCount
              /\ procState' = procState]_vars

\* start_vllm answered False about a tracked process that is serving
C6_Witness ==
    \E t \in Threads :
        /\ Leaving(t, StartOps) /\ vres[t] = "False"
        /\ vllm_process \in passedProbe
        /\ procState[vllm_process] = "serving"
        /\ spawnCount = 1

\* C7: start, stop, start re-establishes the service. A start_vllm that answers
\* True tracks the process it spawned itself, which is the newest one, was
\* never stopped and has answered a health probe; a stop_vllm that answers True
\* leaves nothing tracked; and a start_vllm never answers False ("already
\* running") about a process that stop_vllm has stopped.
C7_Restart ==
    \A t \in Threads :
        /\ (Leaving(t, StartOps) /\ vres[t] = "True") =>
               /\ myProc[t] # 0
               /\ vllm_process = myProc[t]
               /\ myProc[t] = spawnCount
               /\ myProc[t] \notin stoppedProcs
               /\ myProc[t] \in passedProbe
               /\ procState[myProc[t]] \in {"serving", "exited"}
        /\ (Leaving(t, {"stop"}) /\ vres[t] = "True") => vllm_process = None
        /\ (Leaving(t, StartOps) /\ vres[t] = "False") =>
               (vllm_process # None /\ vllm_process \notin stoppedProcs)

\* a first process was started ready and stopped; a second start_vllm answers
\* True with its own fresh process serving
C7_Witness ==
    \E t \in Threads :
        /\ Leaving(t, StartOps) /\ vres[t] = "True"
        /\ spawnCount = 2
        /\ stoppedProcs = {1}
        /\ passedProbe = {1, 2}
        /\ vllm_process = 2
        /\ procState[2] = "serving"

\* C8: start_vllm against a process that stays alive and never answers the
\* probe ends with the startup-timeout error. No loop iteration begins once the
\* elapsed time has reached the timeout; every iteration but the first begins
\* at least one sleep later than the one before, so their number is bounded;
\* the timeout error is raised with timeout <= elapsed < timeout + one probe +
\* one sleep; a start whose process is still starting when it leaves raised the
\* timeout error, and a start that answers True has a process that served.
C8_StartTimeout ==
    \A t \in Threads :
        /\ (vop[t] \in StartOps /\ vpc[t] \in {"st_poll", "st_probe", "st_sleep"})
               => iterAt[t] < timeout[t]
        /\ (vop[t] \in StartOps /\ iters[t] >= 1)
               => SleepSecs * (iters[t] - 1) <= iterAt[t]
        /\ (Leaving(t, StartOps) /\ vres[t] = "raise_timeout") =>
               /\ timeout[t] <= velapsed[t]
               /\ velapsed[t] < timeout[t] + ProbeTimeout + SleepSecs
        /\ (Leaving(t, StartOps) /\ myProc[t] # 0
                /\ procState[myProc[t]] = "starting")
               => vres[t] = "raise_timeout"
        /\ (Leaving(t, StartOps) /\ vres[t] = "True") =>
               (myProc[t] # 0 /\ procState[myProc[t]] # "starting")

\* the timeout error after two iterations, the process still alive and silent
C8_Witness ==
    \E t \in Threads :
        /\ Leaving(t, StartOps) /\ vres[t] = "raise_timeout"
        /\ myProc[t] # 0
        /\ procState[myProc[t]] = "starting"
        /\ iters[t] = 2

\* C9: every loop iteration of start_vllm looks at the process before it
\* probes: a probe or a sleep happens only in an iteration whose poll() found
\* the process alive, the process-died error is raised in an iteration that
\* found it exited, before any probe, and start_vllm answers True only after a
\* probe succeeded in an iteration that found the process alive.
C9_DiedDuringStartup ==
    \A t \in Threads :
        /\ (vop[t] \in StartOps /\ vpc[t] \in {"st_probe", "st_sleep"})
               => iterAlive[t]
        /\ (Leaving(t, StartOps) /\ vres[t] = "raise_died") =>
               /\ myProc[t] # 0
               /\ procState[myProc[t]] = "exited"
               /\ ~iterAlive[t]
        /\ (Leaving(t, StartOps) /\ vres[t] = "True") =>
               (iterAlive[t] /\ myProc[t] \in passedProbe)

\* the process exited after a first unanswered probe; the second iteration
\* raised the process-died error
C9_Witness ==
    \E t \in Threads :
        /\ Leaving(t, StartOps) /\ vres[t] = "raise_died"
        /\ iters[t] = 2
        /\ velapsed[t] >= SleepSecs

\* C10: a stop_vllm that returns leaves no process tracked (so is_vllm_running
\* is false); it returns False without having sent a signal, and True only
\* after it sent SIGTERM to a process that it found alive and that has exited;
\* once it has sent a signal it returns True or raises, never False.
C10_StopResult ==
    \A t \in Threads :
        Leaving(t, {"stop"}) =>
            /\ vres[t] \in {"True", "False", "raise_expired"}
            /\ vres[t] \in {"True", "False"} =>
                   (vllm_process = None /\ ~IsVllmRunning)
            /\ vres[t] = "False" <=> sent[t] = {}
            /\ vres[t] = "True" =>
                   /\ "TERM" \in sent[t]
                   /\ myProc[t] \in stoppedProcs
                   /\ procState[myProc[t]] = "exited"

\* a stop_vllm returns True after it had to kill a process started ready
C10_Witness ==
    \E t \in Threads :
        /\ Leaving(t, {"stop"}) /\ vres[t] = "True"
        /\ sent[t] = {"TERM", "KILL"}
        /\ myProc[t] \in passedProbe

\* a thread is between its acquire and its release of the manager's lock
InVllmCritical(t) == vpc[t] \notin {"idle", "lock"}

\* C11: graceful-then-forced termination in stop_vllm. SIGKILL is sent only
\* after SIGTERM was sent and wait(timeout=30) expired with the process still
\* alive; when the handle is about to be cleared, or has been, the process has
\* exited and SIGKILL was sent exactly if the grace period had expired.
C11_GracefulThenForced ==
    \A t \in Threads :
        /\ (vpc[t] = "sp_kill" \/ "KILL" \in sent[t])
               => ("TERM" \in sent[t] /\ graceExpired[t])
        /\ (vpc[t] = "sp_clear" \/ (Leaving(t, {"stop"}) /\ vres[t] = "True")) =>
               /\ "TERM" \in sent[t]
               /\ graceExpired[t] <=> "KILL" \in sent[t]
               /\ procState[myProc[t]] = "exited"

\* the process exited within the grace period: the handle is about to be
\* cleared and no SIGKILL was sent
C11_Witness ==
    \E t \in Threads :
        /\ vpc[t] = "sp_clear"
        /\ sent[t] = {"TERM"}
        /\ ~graceExpired[t]
        /\ myProc[t] \in passedProbe

\* C12: start_vllm, stop_vllm and is_vllm_running serialize on _vllm_lock. At
\* most one thread is inside any of them and it holds the lock; from the
\* spawn to the outcome of a start_vllm the tracked handle stays the process
\* that start spawned (no stop and no other start ran in between).
C12_ManagerSerialized ==
    /\ Cardinality({t \in Threads : InVllmCritical(t)}) <= 1
    /\ \A t \in Threads : InVllmCritical(t) => vllm_lock = t
    /\ \A t \in Threads :
          (vop[t] \in StartOps
               /\ vpc[t] \in {"st_loop", "st_poll", "st_probe", "st_sleep"})
              => (myProc[t] # 0 /\ vllm_process = myProc[t])
    /\ \A t \in Threads :
          (Leaving(t, StartOps) /\ myProc[t] # 0) => vllm_process = myProc[t]

\* a start_vllm is polling its process while a stop_vllm and nothing else
\* waits for the lock
C12_Witness ==
    \E t, u \in Threads :
        /\ t # u
        /\ vop[t] = "start" /\ vpc[t] = "st_sleep"
        /\ vop[u] = "stop" /\ vpc[u] = "lock"
        /\ vllm_lock = t

\* spawned processes that are alive
AliveProcs == {p \in Spawned : Alive(p)}

\* C31: under every interleaving of start_vllm, stop_vllm, is_vllm_running
\* and ensure_vllm_ready at most one spawned process is alive at any time
\* and it is the tracked one; a process is spawned only in a step that
\* starts with no tracked process alive, also by the start_vllm that
\* ensure_vllm_ready calls after is_vllm_running released the lock.
C31_OneSupervised ==
    /\ [](/\ Cardinality(AliveProcs) <= 1
          /\ \A p \in AliveProcs : vllm_process = p)
    /\ [][spawnCount' # spawnCount =>
              (~IsVllmRunning /\ AliveProcs = {})]_vars

\* ensure_vllm_ready saw no running process, and its start_vllm then finds
\* the process another thread started in between and answers False
C31_Witness ==
    \E t \in Threads :
        /\ vop[t] = "ensure_start"
        /\ vpc[t] = "release"
        /\ vres[t] = "False"
        /\ spawnCount = 1
        /\ AliveProcs = {1}

(* ======================================================================
   The job endpoints of the marker worker (src/workers/marker/app/main.py)
   and the process manager they call. The endpoints are coroutines on one
   event loop: a handler runs alone from one await or yield to the next.
   manager.cancel_job runs in a thread (asyncio.to_thread), the conversion
   runs in a subprocess of its own.
   ====================================================================== *)

Clients == 1..NClients
JobIds == 1..MaxJobs
\* a job_id the converts of the run do not hand out (uuid4 ids cannot be
\* guessed): unknown to the manager unless a job was started before the run
OtherId == MaxJobs + 1
AllIds == JobIds \cup {OtherId}

Terminal == {"completed", "failed", "cancelled"}
Live == {"queued", "running", "html_ready"}

\* manager.get_job(job_id) of an id the registry does not hold
NoJob == [status |-> "none", result |-> 0, error |-> 0, html_content |-> FALSE]

NoResp == [code |-> 0, status |-> "none", result |-> 0, detail |-> "none"]
Resp(c, s, r, d) == [code |-> c, status |-> s, result |-> r, detail |-> d]

Frame(e, d) == [event |-> e, data |-> d]

\* a ProgressEvent of the subprocess (stage and started_at left out), and the
\* progress frame the stream makes of it
ProgressEvent(cur) == [current |-> cur, total |-> MaxEvents]
ProgressFrame(ev) ==
    [event |-> "progress", data |-> ev.current, total |-> ev.total]

get_job(j) == jobs[j]

create_job(j) ==
    [jobs EXCEPT ![j] = [status |-> "queued", result |-> 0, error |-> 0,
                         html_content |-> FALSE]]

\* removes a job that has reached a terminal status
cleanup_finished(j) ==
    IF jobs[j].status \in Terminal THEN [jobs EXCEPT ![j] = NoJob] ELSE jobs

\* a write of a terminal status under the registry's lock: it is discarded
\* unless the job is there and not yet terminal
RecordTerminal(j, st) ==
    IF jobs[j].status \in Live
    THEN [jobs EXCEPT ![j].status = st,
                      ![j].result = IF st = "completed" THEN j ELSE 0,
                      ![j].error = IF st = "failed" THEN 1 ELSE 0]
    ELSE jobs

JobsInit ==
    /\ jobs = [j \in AllIds |-> NoJob]
    /\ queue = [j \in AllIds |-> <<>>]
    /\ proc = [j \in AllIds |-> "none"]
    /\ slot = [j \in AllIds |-> "none"]
    /\ emitted = [j \in AllIds |-> 0]
    /\ nextJob = 0
    /\ reqs = 0
    /\ loop = 0
    /\ hpc = [c \in Clients |-> "idle"]
    /\ hop = [c \in Clients |-> "none"]
    /\ hjob = [c \in Clients |-> 0]
    /\ hseen = [c \in Clients |-> "none"]
    /\ hresult = [c \in Clients |-> 0]
    /\ hres = [c \in Clients |-> NoResp]
    /\ frames = [c \in Clients |-> <<>>]
    /\ html_ready_sent = [c \in Clients |-> FALSE]
    /\ success = [c \in Clients |-> FALSE]

\* the ids a request names: those convert has returned, or an unknown one
Requestable == (1..nextJob) \cup {OtherId}

\* progress events the subprocesses of jobs 1..j have emitted
RECURSIVE EmittedUpTo(_)
EmittedUpTo(j) == IF j = 0 THEN 0 ELSE emitted[j] + EmittedUpTo(j - 1)

\* requests taken and progress events emitted so far
Steps == reqs + EmittedUpTo(OtherId)

\* a request is taken by the first free handler while the run has requests left
CanStart(c) ==
    /\ hpc[c] = "idle" /\ loop = 0
    /\ reqs < MaxReqs
    /\ Steps < MaxSteps
    /\ \A d \in Clients : d < c => hpc[d] # "idle"

(* ---------------------------- POST /convert --------------------------- *)
\* the download fails (400) or no uploaded file matches (404)
ConvReject(c) ==
    /\ CanStart(c)
    /\ reqs' = reqs + 1
    /\ \E code \in {400, 404} :
          hres' = [hres EXCEPT ![c] = Resp(code, "none", 0, "no file")]
    /\ hpc' = [hpc EXCEPT ![c] = "ret"]
    /\ hop' = [hop EXCEPT ![c] = "convert"]
    /\ loop' = c
    /\ UNCHANGED <<outsideJobs, regVars, hjob, hseen, hresult, frames,
                   html_ready_sent, success>>

\* a convert whose job_id may be one that was handed out before
ConvCreateReuse(c) ==
    /\ CanStart(c)
    /\ reqs' = reqs + 1
    /\ \E j \in JobIds :
          /\ jobs' = create_job(j)
          /\ hjob' = [hjob EXCEPT ![c] = j]
    /\ hpc' = [hpc EXCEPT ![c] = "cv_start"]
    /\ hop' = [hop EXCEPT ![c] = "convert"]
    /\ loop' = c
    /\ UNCHANGED <<outsideJobs, queue, proc, slot, emitted, nextJob, hseen,
                   hresult, hres, frames, html_ready_sent, success>>

\* job_id = str(uuid.uuid4()); manager.create_job(job_id, ...)
ConvCreate(c) ==
    /\ CanStart(c)
    /\ reqs' = reqs + 1
    /\ nextJob < MaxJobs
    /\ nextJob' = nextJob + 1
    /\ jobs' = create_job(nextJob + 1)
    /\ hjob' = [hjob EXCEPT ![c] = nextJob + 1]
    /\ hpc' = [hpc EXCEPT ![c] = "cv_start"]
    /\ hop' = [hop EXCEPT ![c] = "convert"]
    /\ loop' = c
    /\ UNCHANGED <<outsideJobs, queue, proc, slot, emitted, hseen, hresult, hres, frames,
                   html_ready_sent, success>>

\* a convert that returns the job_id of a job it has not started
ConvReturnUnstarted(c) ==
    /\ hpc[c] = "cv_start" /\ loop = c
    /\ hres' = [hres EXCEPT ![c] = Resp(200, "none", 0, "job_id")]
    /\ hpc' = [hpc EXCEPT ![c] = "ret"]
    /\ loop' = c
    /\ UNCHANGED <<outsideJobs, reqs, regVars, hop, hjob, hseen, hresult,
                   frames, html_ready_sent, success>>

\* manager.start_job(job_id, ...); return {"job_id": job_id}
ConvStart(c) ==
    /\ hpc[c] = "cv_start" /\ loop = c
    /\ jobs' = [jobs EXCEPT ![hjob[c]].status = "running"]
    /\ proc' = [proc EXCEPT ![hjob[c]] = "alive"]
    /\ hres' = [hres EXCEPT ![c] = Resp(200, "none", 0, "job_id")]
    /\ hpc' = [hpc EXCEPT ![c] = "ret"]
    /\ loop' = c
    /\ UNCHANGED <<outsideJobs, reqs, queue, slot, emitted, nextJob, hop, hjob, hseen, hresult, frames,
                   html_ready_sent, success>>

(* --------------------------- GET /jobs/{id} --------------------------- *)
GetResponse(j) ==
    LET job == get_job(j) IN
    IF job.status = "none" THEN Resp(404, "none", 0, "Job not found")
    ELSE IF job.status = "completed"
         THEN Resp(200, "completed", job.result, "none")
    ELSE IF job.status = "failed" THEN Resp(200, "failed", 0, "error")
    ELSE IF job.status = "cancelled"
         THEN Resp(200, "cancelled", 0, "Job was cancelled")
    ELSE Resp(200, job.status, 0, "none")

\* a poll that takes the job out of the registry whatever its status
GetJobStatusEvicts(c) ==
    /\ CanStart(c)
    /\ reqs' = reqs + 1
    /\ \E j \in Requestable :
          /\ hjob' = [hjob EXCEPT ![c] = j]
          /\ hres' = [hres EXCEPT ![c] = GetResponse(j)]
          /\ jobs' = [jobs EXCEPT ![j] = NoJob]
    /\ hpc' = [hpc EXCEPT ![c] = "ret"]
    /\ hop' = [hop EXCEPT ![c] = "get"]
    /\ loop' = c
    /\ UNCHANGED <<outsideJobs, queue, proc, slot, emitted, nextJob, hseen, hresult, frames,
                   html_ready_sent, success>>

\* a poll that sweeps every finished job out of the registry
GetJobStatusSweeps(c) ==
    /\ CanStart(c)
    /\ reqs' = reqs + 1
    /\ \E j \in Requestable :
          /\ hjob' = [hjob EXCEPT ![c] = j]
          /\ hres' = [hres EXCEPT ![c] = GetResponse(j)]
          /\ jobs' = IF get_job(j).status \in {"completed", "failed"}
                     THEN [k \in AllIds |->
                              IF jobs[k].status \in Terminal THEN NoJob
                              ELSE jobs[k]]
                     ELSE jobs
    /\ hpc' = [hpc EXCEPT ![c] = "ret"]
    /\ hop' = [hop EXCEPT ![c] = "get"]
    /\ loop' = c
    /\ UNCHANGED <<outsideJobs, queue, proc, slot, emitted, nextJob, hseen, hresult, frames,
                   html_ready_sent, success>>

GetJobStatus(c) ==
    /\ CanStart(c)
    /\ reqs' = reqs + 1
    /\ \E j \in Requestable :
          /\ hjob' = [hjob EXCEPT ![c] = j]
          /\ hres' = [hres EXCEPT ![c] = GetResponse(j)]
          /\ jobs' = IF get_job(j).status \in {"completed", "failed"}
                     THEN cleanup_finished(j) ELSE jobs
    /\ hpc' = [hpc EXCEPT ![c] = "ret"]
    /\ hop' = [hop EXCEPT ![c] = "get"]
    /\ loop' = c
    /\ UNCHANGED <<outsideJobs, queue, proc, slot, emitted, nextJob, hseen, hresult, frames,
                   html_ready_sent, success>>

(* ------------------------ GET /jobs/{id}/stream ----------------------- *)
\* html_ready_sent = False; queue = manager.get_queue(job_id)
StreamOpen(c) ==
    /\ CanStart(c)
    /\ reqs' = reqs + 1
    /\ \E j \in Requestable : hjob' = [hjob EXCEPT ![c] = j]
    /\ hpc' = [hpc EXCEPT ![c] = "sg_get"]
    /\ hop' = [hop EXCEPT ![c] = "stream"]
    /\ UNCHANGED <<outsideJobs, regVars, loop, hseen, hresult, hres, frames,
                   html_ready_sent, success>>

\* a stream that reports what is left to do in place of current
SgProgressRemaining(c) ==
    /\ hpc[c] = "sg_get" /\ loop = 0
    /\ queue[hjob[c]] # <<>>
    /\ LET ev == Head(queue[hjob[c]]) IN
          frames' = [frames EXCEPT
                        ![c] = Append(@, [ProgressFrame(ev) EXCEPT
                                             !.data = ev.total - ev.current])]
    /\ queue' = [queue EXCEPT ![hjob[c]] = Tail(@)]
    /\ UNCHANGED <<outsideJobs, reqs, jobs, proc, slot, emitted, nextJob, loop, hpc, hop, hjob, hseen, hresult, hres,
                   html_ready_sent, success>>

\* a stream that takes the newest event of the queue first
SgProgressLifo(c) ==
    /\ hpc[c] = "sg_get" /\ loop = 0
    /\ queue[hjob[c]] # <<>>
    /\ LET q == queue[hjob[c]] IN
          /\ frames' = [frames EXCEPT
                           ![c] = Append(@, ProgressFrame(q[Len(q)]))]
          /\ queue' = [queue EXCEPT ![hjob[c]] = SubSeq(q, 1, Len(q) - 1)]
    /\ UNCHANGED <<outsideJobs, reqs, jobs, proc, slot, emitted, nextJob, loop, hpc, hop, hjob, hseen, hresult, hres,
                   html_ready_sent, success>>

\* event = queue.get(True, 0.5); yield the progress frame; continue
SgProgress(c) ==
    /\ hpc[c] = "sg_get" /\ loop = 0
    /\ queue[hjob[c]] # <<>>
    /\ frames' = [frames EXCEPT
                     ![c] = Append(@, ProgressFrame(Head(queue[hjob[c]])))]
    /\ queue' = [queue EXCEPT ![hjob[c]] = Tail(@)]
    /\ UNCHANGED <<outsideJobs, reqs, jobs, proc, slot, emitted, nextJob, loop, hpc, hop, hjob, hseen, hresult, hres,
                   html_ready_sent, success>>

\* a status check that does not look at html_ready_sent
CheckFrameNoFlag(c, job) ==
    IF job.status = "none" THEN <<Frame("error", 0)>>
    ELSE IF job.status = "completed"
         THEN IF ~html_ready_sent[c] /\ job.html_content
              THEN <<Frame("html_ready", 0)>>
              ELSE <<Frame("completed", job.result)>>
    ELSE IF job.status = "failed" THEN <<Frame("failed", job.error)>>
    ELSE IF job.status = "cancelled" THEN <<Frame("cancelled", 0)>>
    ELSE IF job.status = "html_ready" THEN <<Frame("html_ready", 0)>>
    ELSE <<>>

\* a status check that yields html_ready only on status html_ready
CheckFrameNoLateHtml(c, job) ==
    IF job.status = "none" THEN <<Frame("error", 0)>>
    ELSE IF job.status = "completed"
         THEN <<Frame("completed", job.result)>>
    ELSE IF job.status = "failed" THEN <<Frame("failed", job.error)>>
    ELSE IF job.status = "cancelled" THEN <<Frame("cancelled", 0)>>
    ELSE IF job.status = "html_ready" /\ ~html_ready_sent[c]
         THEN <<Frame("html_ready", 0)>>
    ELSE <<>>

\* the frame the status check yields first, if any
CheckFrame(c, job) ==
    IF job.status = "none" THEN <<Frame("error", 0)>>
    ELSE IF job.status = "completed"
         THEN IF ~html_ready_sent[c] /\ job.html_content
              THEN <<Frame("html_ready", 0)>>
              ELSE <<Frame("completed", job.result)>>
    ELSE IF job.status = "failed" THEN <<Frame("failed", job.error)>>
    ELSE IF job.status = "cancelled" THEN <<Frame("cancelled", 0)>>
    ELSE IF job.status = "html_ready" /\ ~html_ready_sent[c]
         THEN <<Frame("html_ready", 0)>>
    ELSE <<>>

\* a status check that goes round the loop again after the cancelled frame
CheckNextNoReturn(c, job) ==
    IF job.status = "none" THEN "sg_done"
    ELSE IF job.status = "completed"
         THEN IF ~html_ready_sent[c] /\ job.html_content
              THEN "sg_completed" ELSE "sg_cleanup"
    ELSE IF job.status = "failed" THEN "sg_cleanup"
    ELSE "sg_get"

\* a status check that cleans up also when it found no job
CheckNextCleansMissing(c, job) ==
    IF job.status = "none" THEN "sg_cleanup"
    ELSE IF job.status = "completed"
         THEN IF ~html_ready_sent[c] /\ job.html_content
              THEN "sg_completed" ELSE "sg_cleanup"
    ELSE IF job.status \in {"failed", "cancelled"} THEN "sg_cleanup"
    ELSE "sg_get"

\* where the generator is after that frame
CheckNext(c, job) ==
    IF job.status = "none" THEN "sg_done"
    ELSE IF job.status = "completed"
         THEN IF ~html_ready_sent[c] /\ job.html_content
              THEN "sg_completed" ELSE "sg_cleanup"
    ELSE IF job.status \in {"failed", "cancelled"} THEN "sg_cleanup"
    ELSE "sg_get"

\* a generator whose queue.get has no timeout: it reads the status only
\* after an event has arrived
SgCheckNoTimeout(c) ==
    /\ hpc[c] = "sg_check"
    /\ loop = 0
    /\ LET job == get_job(hjob[c]) IN
          /\ hseen' = [hseen EXCEPT ![c] =
                 IF CheckNext(c, job) = "sg_get" THEN "none" ELSE job.status]
          /\ hresult' = [hresult EXCEPT ![c] =
                 IF CheckNext(c, job) = "sg_get" THEN 0 ELSE job.result]
          /\ frames' = [frames EXCEPT ![c] = @ \o CheckFrame(c, job)]
          /\ html_ready_sent' =
                 [html_ready_sent EXCEPT
                     ![c] = \/ @
                            \/ job.status = "completed" /\ job.html_content
                            \/ job.status = "html_ready"]
          /\ hpc' = [hpc EXCEPT ![c] = CheckNext(c, job)]
    /\ loop' = IF hpc'[c] = "sg_done" THEN c ELSE 0
    /\ UNCHANGED <<outsideJobs, reqs, regVars, hop, hjob, hres, success>>

\* queue.get raises Empty after 0.5 s without an event (except Empty: pass);
\* job = manager.get_job(job_id) and the branches up to the first yield. The
\* generator is at "sg_check" when an event was put after its queue.get had
\* raised Empty and before it read the status
SgCheck(c) ==
    /\ \/ hpc[c] = "sg_get" /\ queue[hjob[c]] = <<>>
       \/ hpc[c] = "sg_check"
    /\ loop = 0
    /\ LET job == get_job(hjob[c]) IN
          /\ hseen' = [hseen EXCEPT ![c] =
                 IF CheckNext(c, job) = "sg_get" THEN "none" ELSE job.status]
          /\ hresult' = [hresult EXCEPT ![c] =
                 IF CheckNext(c, job) = "sg_get" THEN 0 ELSE job.result]
          /\ frames' = [frames EXCEPT ![c] = @ \o CheckFrame(c, job)]
          /\ html_ready_sent' =
                 [html_ready_sent EXCEPT
                     ![c] = \/ @
                            \/ job.status = "completed" /\ job.html_content
                            \/ job.status = "html_ready"]
          /\ hpc' = [hpc EXCEPT ![c] = CheckNext(c, job)]
    /\ loop' = IF hpc'[c] = "sg_done" THEN c ELSE 0
    /\ UNCHANGED <<outsideJobs, reqs, regVars, hop, hjob, hres, success>>

\* yield {"event": "completed", ...} after the late html_ready frame
SgCompleted(c) ==
    /\ hpc[c] = "sg_completed" /\ loop = 0
    /\ frames' = [frames EXCEPT ![c] = Append(@, Frame("completed", hresult[c]))]
    /\ hpc' = [hpc EXCEPT ![c] = "sg_cleanup"]
    /\ UNCHANGED <<outsideJobs, reqs, regVars, loop, hop, hjob, hseen, hresult,
                   hres, html_ready_sent, success>>

\* manager.cleanup_finished(job_id); return
SgCleanup(c) ==
    /\ hpc[c] = "sg_cleanup" /\ loop = 0
    /\ jobs' = cleanup_finished(hjob[c])
    /\ hpc' = [hpc EXCEPT ![c] = "sg_done"]
    /\ loop' = c
    /\ UNCHANGED <<outsideJobs, reqs, queue, proc, slot, emitted, nextJob, hop, hjob, hseen, hresult,
                   hres, frames, html_ready_sent, success>>

(* -------------------------- POST /cancel/{id} ------------------------- *)
\* job = manager.get_job(job_id): 404, or the answer for a finished job, or
\* on to manager.cancel_job in a thread
CancelCheckNoGuard(c) ==
    /\ CanStart(c)
    /\ reqs' = reqs + 1
    /\ \E j \in Requestable :
          /\ hjob' = [hjob EXCEPT ![c] = j]
          /\ hres' = [hres EXCEPT ![c] =
                 IF get_job(j).status = "none"
                 THEN Resp(404, "none", 0, "Job not found") ELSE NoResp]
          /\ hpc' = [hpc EXCEPT ![c] =
                 IF get_job(j).status = "none" THEN "ret" ELSE "mc_signal"]
    /\ loop' = IF hpc'[c] = "ret" THEN c ELSE 0
    /\ hop' = [hop EXCEPT ![c] = "cancel"]
    /\ UNCHANGED <<outsideJobs, regVars, hseen, hresult, frames,
                   html_ready_sent, success>>

CancelCheck(c) ==
    /\ CanStart(c)
    /\ reqs' = reqs + 1
    /\ \E j \in Requestable :
          /\ hjob' = [hjob EXCEPT ![c] = j]
          /\ hres' = [hres EXCEPT ![c] =
                 IF get_job(j).status = "none"
                 THEN Resp(404, "none", 0, "Job not found")
                 ELSE IF get_job(j).status \in Terminal
                 THEN Resp(200, get_job(j).status, 0, "Job already finished")
                 ELSE NoResp]
          /\ hpc' = [hpc EXCEPT ![c] =
                 IF get_job(j).status \in Live THEN "mc_signal" ELSE "ret"]
    /\ loop' = IF hpc'[c] = "ret" THEN c ELSE 0
    /\ hop' = [hop EXCEPT ![c] = "cancel"]
    /\ UNCHANGED <<outsideJobs, regVars, hseen, hresult, frames,
                   html_ready_sent, success>>

\* manager.cancel_job: an unknown job is a failure and a finished job a
\* no-op; otherwise the subprocess is terminated, waited for and killed if
\* it is still there, so that afterwards it has exited
McSignal(c) ==
    /\ hpc[c] = "mc_signal"
    /\ IF jobs[hjob[c]].status = "none"
       THEN /\ success' = [success EXCEPT ![c] = FALSE]
            /\ hpc' = [hpc EXCEPT ![c] = "cn_result"]
            /\ UNCHANGED proc
       ELSE IF jobs[hjob[c]].status \in Terminal
       THEN /\ \E b \in BOOLEAN : success' = [success EXCEPT ![c] = b]
            /\ hpc' = [hpc EXCEPT ![c] = "cn_result"]
            /\ UNCHANGED proc
       ELSE /\ proc' = [proc EXCEPT
                           ![hjob[c]] = IF @ = "alive" THEN "exited" ELSE @]
            /\ hpc' = [hpc EXCEPT ![c] = "mc_write"]
            /\ UNCHANGED success
    /\ UNCHANGED <<outsideJobs, reqs, jobs, queue, slot, emitted, nextJob,
                   loop, hop, hjob, hseen, hresult, hres, frames,
                   html_ready_sent>>

\* a cancel that writes cancelled over whatever status is recorded
McWriteOverwrites(c) ==
    /\ hpc[c] = "mc_write"
    /\ jobs' = IF jobs[hjob[c]].status = "none" THEN jobs
               ELSE [jobs EXCEPT ![hjob[c]].status = "cancelled"]
    /\ success' = [success EXCEPT ![c] = TRUE]
    /\ hpc' = [hpc EXCEPT ![c] = "cn_result"]
    /\ UNCHANGED <<outsideJobs, reqs, queue, proc, slot, emitted, nextJob, loop, hop, hjob, hseen, hresult, hres, frames,
                   html_ready_sent>>

\* manager.cancel_job: the job becomes cancelled unless a terminal status
\* was recorded first
McWrite(c) ==
    /\ hpc[c] = "mc_write"
    /\ jobs' = RecordTerminal(hjob[c], "cancelled")
    /\ IF jobs[hjob[c]].status \in Live
       THEN success' = [success EXCEPT ![c] = TRUE]
       ELSE \E b \in BOOLEAN : success' = [success EXCEPT ![c] = b]
    /\ hpc' = [hpc EXCEPT ![c] = "cn_result"]
    /\ UNCHANGED <<outsideJobs, reqs, queue, proc, slot, emitted, nextJob, loop, hop, hjob, hseen, hresult, hres, frames,
                   html_ready_sent>>

\* an endpoint that answers cancelled whatever cancel_job returned
CnResultAlwaysOk(c) ==
    /\ hpc[c] = "cn_result" /\ loop = 0
    /\ hres' = [hres EXCEPT ![c] = Resp(200, "cancelled", 0, "job_id")]
    /\ hpc' = [hpc EXCEPT ![c] = "ret"]
    /\ loop' = c
    /\ UNCHANGED <<outsideJobs, reqs, regVars, hop, hjob, hseen, hresult,
                   frames, html_ready_sent, success>>

\* if not success: 500; return {"status": "cancelled", "job_id": job_id}
CnResult(c) ==
    /\ hpc[c] = "cn_result" /\ loop = 0
    /\ hres' = [hres EXCEPT ![c] =
           IF success[c] THEN Resp(200, "cancelled", 0, "job_id")
           ELSE Resp(500, "none", 0, "Failed to cancel job")]
    /\ hpc' = [hpc EXCEPT ![c] = "ret"]
    /\ loop' = c
    /\ UNCHANGED <<outsideJobs, reqs, regVars, hop, hjob, hseen, hresult,
                   frames, html_ready_sent, success>>

\* the response has been sent, or the generator has returned
HReturn(c) ==
    /\ hpc[c] \in {"ret", "sg_done"} /\ loop = c
    /\ hpc' = [hpc EXCEPT ![c] = "idle"]
    /\ hop' = [hop EXCEPT ![c] = "none"]
    /\ hjob' = [hjob EXCEPT ![c] = 0]
    /\ hseen' = [hseen EXCEPT ![c] = "none"]
    /\ hresult' = [hresult EXCEPT ![c] = 0]
    /\ hres' = [hres EXCEPT ![c] = NoResp]
    /\ frames' = [frames EXCEPT ![c] = <<>>]
    /\ html_ready_sent' = [html_ready_sent EXCEPT ![c] = FALSE]
    /\ success' = [success EXCEPT ![c] = FALSE]
    /\ loop' = 0
    /\ UNCHANGED <<outsideJobs, reqs, regVars>>

(* ----------------------- the conversion subprocess -------------------- *)
\* the generators whose queue.get on job j's queue is waiting on an empty queue
Waiting(j) ==
    {c \in Clients : hpc[c] = "sg_get" /\ hjob[c] = j /\ queue[j] = <<>>}

\* the subprocess puts a progress event on the job's queue. A queue.get that
\* was waiting either returns the event later or had raised Empty just before
WorkerProgress(j) ==
    /\ proc[j] = "alive"
    /\ EmittedUpTo(OtherId) < MaxEvents
    /\ Steps < MaxSteps
    /\ emitted' = [emitted EXCEPT ![j] = @ + 1]
    /\ queue' = [queue EXCEPT ![j] = Append(@, ProgressEvent(emitted[j] + 1))]
    /\ \E T \in SUBSET Waiting(j) :
          hpc' = [c \in Clients |-> IF c \in T THEN "sg_check" ELSE hpc[c]]
    /\ UNCHANGED <<outsideJobs, reqs, jobs, proc, slot, nextJob, loop, hop, hjob,
                   hseen, hresult, hres, frames, html_ready_sent, success>>

\* the early HTML is available: running -> html_ready
WorkerHtmlReady(j) ==
    /\ proc[j] = "alive"
    /\ jobs[j].status = "running"
    /\ jobs' = [jobs EXCEPT ![j].status = "html_ready",
                            ![j].html_content = TRUE]
    /\ UNCHANGED <<outsideJobs, reqs, queue, proc, slot, emitted, nextJob, handlerVars>>

\* the subprocess posts its outcome in the result slot and exits
WorkerFinish(j) ==
    /\ proc[j] = "alive"
    /\ \E o \in {"completed", "failed"} : slot' = [slot EXCEPT ![j] = o]
    /\ proc' = [proc EXCEPT ![j] = "exited"]
    /\ UNCHANGED <<outsideJobs, reqs, jobs, queue, emitted, nextJob, handlerVars>>

\* an outcome that is written whatever status is recorded
RecordOutcomeOverwrites(j) ==
    /\ slot[j] # "none"
    /\ jobs' = IF jobs[j].status = "none" THEN jobs
               ELSE [jobs EXCEPT ![j].status = slot[j]]
    /\ slot' = [slot EXCEPT ![j] = "none"]
    /\ UNCHANGED <<outsideJobs, reqs, queue, proc, emitted, nextJob, handlerVars>>

\* the manager records the posted outcome in the registry
RecordOutcome(j) ==
    /\ slot[j] # "none"
    /\ jobs' = RecordTerminal(j, slot[j])
    /\ slot' = [slot EXCEPT ![j] = "none"]
    /\ UNCHANGED <<outsideJobs, reqs, queue, proc, emitted, nextJob, handlerVars>>

NextJobs ==
    \/ \E c \in Clients :
          \/ ConvReject(c) \/ ConvCreate(c) \/ ConvStart(c)
          \/ GetJobStatus(c)
          \/ StreamOpen(c) \/ SgProgress(c) \/ SgCheck(c)
          \/ SgCompleted(c) \/ SgCleanup(c)
          \/ CancelCheck(c) \/ McSignal(c) \/ McWrite(c)
          \/ CnResult(c)
          \/ HReturn(c)
    \/ \E j \in JobIds :
          \/ WorkerProgress(j) \/ WorkerHtmlReady(j) \/ WorkerFinish(j)
          \/ RecordOutcome(j)

(* --------------------------- claims: job endpoints -------------------- *)
\* this step is a handler entering cancel_job
IsCancelStart(c) == hpc[c] = "idle" /\ hpc'[c] # "idle" /\ hop'[c] = "cancel"

\* C13: a job's status only moves forward: queued -> running, running ->
\* html_ready or a terminal status, html_ready -> a terminal status. A
\* terminal status is never replaced by another status (the record can only
\* be removed), and an id that once held a job is never given a new one.
C13_StatusForward ==
    [][\A j \in JobIds :
          jobs'[j].status # jobs[j].status =>
              \/ /\ jobs[j].status = "none"
                 /\ jobs'[j].status = "queued"
                 /\ j = nextJob + 1
              \/ jobs[j].status = "queued" /\ jobs'[j].status = "running"
              \/ /\ jobs[j].status = "running"
                 /\ jobs'[j].status \in {"html_ready"} \cup Terminal
              \/ jobs[j].status = "html_ready" /\ jobs'[j].status \in Terminal
              \/ jobs[j].status \in Terminal /\ jobs'[j].status = "none"]_vars

\* a job that went queued -> running -> html_ready -> completed
C13_Witness ==
    \E j \in JobIds :
        /\ jobs[j].status = "completed"
        /\ jobs[j].html_content
        /\ jobs[j].result = j

\* C14: a cancel racing with natural completion. Each of the two writes (the
\* cancel's, the recorded outcome's) takes effect only on a job that is not
\* yet terminal and is discarded otherwise, so the first write decides the
\* one terminal status; in particular a cancel that passed the endpoint's
\* check leaves a completed or failed record as it is.
C14_FirstWriteWins ==
    [][/\ \A c \in Clients :
             (hpc[c] = "mc_write" /\ hpc'[c] # "mc_write") =>
                 IF jobs[hjob[c]].status \in Live
                 THEN jobs'[hjob[c]].status = "cancelled"
                 ELSE jobs' = jobs
       /\ \A j \in JobIds :
             (slot[j] # "none" /\ slot'[j] = "none") =>
                 IF jobs[j].status \in Live
                 THEN jobs'[j].status = slot[j]
                 ELSE jobs' = jobs]_vars

\* the cancel passed the endpoint's check and signalled, the outcome was
\* recorded first, and the cancel's write is about to be discarded
C14_Witness ==
    \E c \in Clients :
        /\ hpc[c] = "mc_write"
        /\ jobs[hjob[c]].status \in {"completed", "failed"}

\* C15: POST /cancel for a job that is already completed, failed or
\* cancelled changes neither the registry nor any subprocess nor the result
\* slot, does not call cancel_job, and answers with the job's current status
\* and "Job already finished".
C15_CancelFinishedNoOp ==
    [][\A c \in Clients :
          (IsCancelStart(c) /\ jobs[hjob'[c]].status \in Terminal) =>
              /\ jobs' = jobs /\ proc' = proc /\ slot' = slot
              /\ hpc'[c] = "ret"
              /\ hres'[c] = Resp(200, jobs[hjob'[c]].status, 0,
                                 "Job already finished")]_vars

\* the no-op answer for a completed job whose result is still in place
C15_Witness ==
    \E c \in Clients :
        /\ hpc[c] = "ret" /\ hop[c] = "cancel"
        /\ hres[c] = Resp(200, "completed", 0, "Job already finished")
        /\ jobs[hjob[c]].status = "completed"
        /\ jobs[hjob[c]].result = hjob[c]

C17_CancelAnswers ==
    [][\A c \in Clients :
          /\ (IsCancelStart(c) /\ jobs[hjob'[c]].status = "none") =>
                 /\ hres'[c] = Resp(404, "none", 0, "Job not found")
                 /\ hpc'[c] = "ret"
                 /\ regVars' = regVars
          /\ (hpc[c] = "cn_result" /\ hpc'[c] # "cn_result") =>
                 /\ hpc'[c] = "ret"
                 /\ regVars' = regVars
                 /\ hres'[c] = IF success[c]
                               THEN Resp(200, "cancelled", 0, "job_id")
                               ELSE Resp(500, "none", 0, "Failed to cancel job")
          /\ (hop'[c] = "cancel" /\ hres'[c].detail = "job_id")
                 => success'[c]]_vars

\* cancel_job reported failure and the endpoint answered 500
C17_Witness ==
    \E c \in Clients :
        /\ hpc[c] = "ret" /\ hop[c] = "cancel"
        /\ hres[c].code = 500
        /\ ~success[c]

\* positions of the terminal frames a stream has yielded
TerminalFrames(c) ==
    {i \in 1..Len(frames[c]) : frames[c][i].event \in Terminal}

\* C18: a stream yields a terminal frame only for the terminal status it
\* read, at most one, as its last frame, and then only cleans up and
\* returns; once it has read a terminal status and reached its cleanup, that
\* frame has been yielded.
C18_OneTerminalFrame ==
    \A c \in Clients :
        /\ Cardinality(TerminalFrames(c)) <= 1
        /\ TerminalFrames(c) # {} =>
               /\ TerminalFrames(c) = {Len(frames[c])}
               /\ hpc[c] \in {"sg_cleanup", "sg_done"}
               /\ frames[c][Len(frames[c])].event = hseen[c]
               /\ hseen[c] = "completed"
                      => frames[c][Len(frames[c])].data = hresult[c]
        /\ (hpc[c] \in {"sg_cleanup", "sg_done"} /\ hseen[c] \in Terminal)
               => TerminalFrames(c) # {}

\* a stream that ended with the cancelled frame after a progress frame
C18_Witness ==
    \E c \in Clients :
        /\ hpc[c] = "sg_done"
        /\ Len(frames[c]) >= 2
        /\ frames[c][Len(frames[c])] = Frame("cancelled", 0)
        /\ frames[c][1].event = "progress"

\* C19: the progress frames of a stream carry the events in the order the
\* queue held them (the subprocess numbers them 1, 2, ...), and no progress
\* frame comes after a terminal frame.
C19_ProgressInOrder ==
    \A c \in Clients :
        \A i, k \in 1..Len(frames[c]) :
            (i < k /\ frames[c][k].event = "progress") =>
                /\ frames[c][i].event \notin Terminal
                /\ frames[c][i].event = "progress"
                       => frames[c][i].data < frames[c][k].data

\* two progress frames in order, then the completed frame
C19_Witness ==
    \E c \in Clients :
        /\ hpc[c] = "sg_done"
        /\ frames[c] = <<ProgressFrame(ProgressEvent(1)),
                         ProgressFrame(ProgressEvent(2)),
                         Frame("completed", hjob[c])>>

\* C20: cleanup on read. After GET /jobs/{id} has reported a terminal status
\* (completed, failed or cancelled) the job is gone from the registry; a GET
\* that reports a status that is not terminal leaves the job there.
C20_CleanupOnRead ==
    \A c \in Clients :
        (hpc[c] = "ret" /\ hop[c] = "get" /\ hres[c].code = 200) =>
            IF hres[c].status \in Terminal
            THEN jobs[hjob[c]].status = "none"
            ELSE jobs[hjob[c]].status # "none"


\* C21: cleanup_finished is called exactly once for a job, while the job is
\* in a terminal status: every call a stream makes finds the job in the
\* registry with a terminal status.
C21_CleanupOnce ==
    [][\A c \in Clients :
          (hpc[c] = "sg_cleanup" /\ hpc'[c] = "sg_done")
              => jobs[hjob[c]].status \in Terminal]_vars

\* the last frame a stream has yielded is a terminal frame or the error frame
EndedFrames(c) ==
    /\ frames[c] # <<>>
    /\ frames[c][Len(frames[c])].event \in Terminal \cup {"error"}

C23_ResultIffCompleted ==
    /\ \A j \in JobIds :
          /\ jobs[j].result # 0 <=> jobs[j].status = "completed"
          /\ jobs[j].error # 0 <=> jobs[j].status = "failed"
    /\ \A c \in Clients :
          (hpc[c] = "ret" /\ hop[c] = "get" /\ hres[c].code = 200) =>
              /\ hres[c].result # 0 <=> hres[c].status = "completed"
              /\ hres[c].detail # "none" <=> hres[c].status = "failed"

\* positions of the html_ready frames a stream has yielded
HtmlReadyFrames(c) ==
    {i \in 1..Len(frames[c]) : frames[c][i].event = "html_ready"}

FailureStep(j) ==
    \/ proc[j] = "alive" /\ proc'[j] = "exited" /\ slot'[j] = "failed"
    \/ slot[j] = "failed" /\ slot'[j] = "none"
    \/ \E c \in Clients :
          /\ hpc[c] = "idle" /\ hop'[c] = "get" /\ hjob'[c] = j
          /\ hres'[c].status = "failed"

\* C25: the failure of one job's subprocess becomes that job's failed status
\* with an error and touches nothing else: record, queue, subprocess and
\* outcome of every other job stay as they are, and no handler is disturbed
\* by the failure or its recording.
C25_FailureIsolated ==
    [][\A j \in AllIds :
          FailureStep(j) =>
              /\ \A k \in AllIds \ {j} :
                    /\ jobs'[k] = jobs[k] /\ queue'[k] = queue[k]
                    /\ proc'[k] = proc[k] /\ slot'[k] = slot[k]
              /\ (slot[j] = "failed" /\ slot'[j] = "none"
                      /\ jobs[j].status \in Live)
                     => /\ jobs'[j].status = "failed"
                        /\ jobs'[j].error # 0 /\ jobs'[j].result = 0
              /\ slot'[j] # slot[j] => UNCHANGED handlerVars
              /\ queue'[j] = queue[j]]_vars

\* one job has failed and was reported as failed and removed; after that the
\* other job completed and GET /jobs/{id} answers with its result
C25_Witness ==
    \E c \in Clients, j \in JobIds :
        /\ jobs[OtherId].status = "none" /\ proc[OtherId] = "exited"
        /\ hpc[c] = "ret" /\ hop[c] = "get" /\ hjob[c] = j
        /\ hres[c] = Resp(200, "completed", j, "none")

C27_SuccessCompletes ==
    /\ [][\A j \in AllIds :
             jobs'[j].status # jobs[j].status =>
                 /\ jobs'[j].status # "cancelled"
                 /\ jobs'[j].status = "failed" => slot[j] = "failed"
                 /\ jobs'[j].status = "completed"
                        => slot[j] = "completed" /\ jobs'[j].result # 0
                 /\ jobs'[j].status = "running" => jobs[j].status = "queued"
                 /\ jobs'[j].status = "html_ready"
                        => jobs[j].status = "running"]_vars
    /\ \A j \in AllIds :
          (slot[j] = "completed")
              ~> (jobs[j].status = "completed" /\ jobs[j].result # 0)

\* the job converted in the run went through html_ready and is completed
C27_Witness ==
    \E j \in JobIds :
        /\ jobs[j].status = "completed" /\ jobs[j].result = j
        /\ jobs[j].html_content

\* the progress frames of stream c, in the order it yielded them
ProgressOf(c) ==
    SelectSeq(frames[c], LAMBDA f : f.event = "progress")

\* C28: the current values a stream reports for its job never decrease, an
\* event still on the queue is not below any value already reported, and
\* every progress frame and every queued event of the job carries the same
\* total; no progress frame follows the terminal frame.
C28_ProgressMonotone ==
    \A c \in Clients :
        LET p == ProgressOf(c)
            q == IF hjob[c] \in AllIds THEN queue[hjob[c]] ELSE <<>>
        IN /\ \A i, k \in 1..Len(p) :
                 i < k => /\ p[i].data <= p[k].data
                          /\ p[i].total = p[k].total
           /\ \A i \in 1..Len(p), k \in 1..Len(q) :
                 /\ p[i].data <= q[k].current
                 /\ p[i].total = q[k].total
           /\ \A i, k \in 1..Len(q) : i < k => q[i].current <= q[k].current
           /\ TerminalFrames(c) # {} =>
                 frames[c][Len(frames[c])].event # "progress"

\* a stream has reported one event and the next one is on the queue
C28_Witness ==
    \E c \in Clients :
        /\ hpc[c] = "sg_get"
        /\ ProgressOf(c) = <<ProgressFrame(ProgressEvent(1))>>
        /\ queue[hjob[c]] = <<ProgressEvent(2)>>

\* C29: no progress event is dropped. When a stream has yielded its terminal
\* frame, every event the subprocess put on the job's queue has been taken
\* off it and reported.
C29_NoEventDropped ==
    \A c \in Clients :
        TerminalFrames(c) # {} => queue[hjob[c]] = <<>>

\* C30: a consumer that watched a job before it was terminal is never told
\* Job not found. In particular a stream that has yielded html_ready on
\* reading status html_ready, so while the job was running, does not end
\* with the error frame.
C30_NeverNotFound ==
    \A c \in Clients :
        HtmlReadyFrames(c) # {} =>
            frames[c][Len(frames[c])].event # "error"

\* the generator leaves its wait for events in this step
LeavesWait(c) ==
    /\ hpc[c] \in {"sg_get", "sg_check"}
    /\ hpc'[c] \notin {"sg_get", "sg_check"}

\* the job of the stream is completed with html_content and the stream has
\* yielded no html_ready frame
LateHtml(c) ==
    /\ jobs[hjob[c]].status = "completed"
    /\ jobs[hjob[c]].html_content
    /\ ~html_ready_sent[c]

\* C32: an html_ready frame of a stream comes before the stream's terminal
\* frame. A stream that finds its job completed with html_content, without
\* having yielded html_ready on status html_ready, yields the html_ready
\* frame in that step and the completed frame as its next frame.
C32_HtmlReadyBeforeTerminal ==
    /\ [](\A c \in Clients :
             /\ \A i \in HtmlReadyFrames(c) :
                   \A k \in TerminalFrames(c) : i < k
             /\ hpc[c] = "sg_completed" =>
                   /\ frames[c] # <<>>
                   /\ frames[c][Len(frames[c])].event = "html_ready"
                   /\ hseen[c] = "completed")
    /\ [][\A c \in Clients :
             /\ (LeavesWait(c) /\ LateHtml(c)) =>
                   /\ frames'[c] = Append(frames[c], Frame("html_ready", 0))
                   /\ hpc'[c] = "sg_completed"
             /\ (hpc[c] = "sg_completed" /\ hpc'[c] # "sg_completed") =>
                   /\ frames'[c] =
                         Append(frames[c], Frame("completed", hresult[c]))
                   /\ hresult[c] # 0]_vars

\* a stream that never saw status html_ready has yielded the html_ready frame
\* on reading status completed and yields the completed frame next
C32_Witness ==
    \E c \in Clients :
        /\ hpc[c] = "sg_completed"
        /\ frames[c] = <<Frame("html_ready", 0)>>
        /\ jobs[hjob[c]].status = "completed"

\* the stream has yielded the error frame as its latest frame
EndsWithError(c) ==
    /\ frames[c] # <<>>
    /\ frames[c][Len(frames[c])].event = "error"

\* C36: a stream that checks the status of a job the registry does not hold
\* (an id no convert handed out, or a job already cleaned up) yields the
\* error frame "Job not found" in that step and returns; the frame is the
\* only error frame and the last frame of the stream, no terminal frame
\* goes with it, and the stream does not go through cleanup_finished: the
\* step leaves the registry, the queues and the subprocesses as they were.
C36_MissingJobError ==
    /\ [](\A c \in Clients :
             /\ \A i \in 1..(Len(frames[c]) - 1) :
                   frames[c][i].event # "error"
             /\ EndsWithError(c) =>
                   /\ hpc[c] = "sg_done"
                   /\ hseen[c] = "none"
                   /\ \A i \in 1..(Len(frames[c]) - 1) :
                         frames[c][i].event \notin Terminal)
    /\ [][\A c \in Clients :
             LeavesWait(c) =>
                 IF get_job(hjob[c]).status = "none"
                 THEN /\ frames'[c] = Append(frames[c], Frame("error", 0))
                      /\ hpc'[c] = "sg_done"
                      /\ UNCHANGED regVars
                 ELSE hpc'[c] # "sg_done"]_vars

\* a stream on a job that a poll has already cleaned up ended with the
\* error frame, after the job's id had been handed out by a convert
C36_Witness ==
    \E c \in Clients :
        /\ hpc[c] = "sg_done"
        /\ hjob[c] \in 1..nextJob
        /\ frames[c] = <<Frame("error", 0)>>
        /\ jobs[hjob[c]].status = "none"

(* ======================================================================
   The serverless handlers: src/workers/marker/app/handler.py,
   src/workers/chandra/app/handler.py and src/worker/app/handler.py. The
   platform calls handler(job) for one job at a time. The marker handler
   installs a progress callback in the progress module; the handler of
   src/worker returns the conversion result itself and uploads nothing.
   ====================================================================== *)

Services == {"marker", "chandra", "worker"}

\* the fields of job["input"] the handlers test: present and not empty
Inputs ==
    [file_url : BOOLEAN, result_upload_url : BOOLEAN,
     progress_webhook_url : BOOLEAN]

NoInput ==
    [file_url |-> FALSE, result_upload_url |-> FALSE,
     progress_webhook_url |-> FALSE]

\* nothing done yet by the invocation
NotYet ==
    [tempfile |-> "none", download |-> "none", conversion |-> "none",
     upload |-> "none", callback |-> "none"]

\* the error payloads of the handlers
ErrorPayloads ==
    {"Missing required field: file_url",
     "Missing required field: result_upload_url",
     "Failed to download file", "Conversion failed",
     "Failed to upload result to S3"}

\* no invocation yet
ServerlessInit ==
    /\ svc \in Services
    /\ spos = "idle"
    /\ job_input = NoInput
    /\ job_id = 0
    /\ payload = "none"
    /\ webhook_callback = None
    /\ temp_files = {}
    /\ temp_path = 0
    /\ did = NotYet
    /\ invocations = 0

\* a process that runs no serverless handler
ServerlessOff ==
    /\ svc = "marker"
    /\ spos = "idle"
    /\ job_input = NoInput
    /\ job_id = 0
    /\ payload = "none"
    /\ webhook_callback = None
    /\ temp_files = {}
    /\ temp_path = 0
    /\ did = NotYet
    /\ invocations = 0

\* handler(job): job_input = job["input"], and for marker job_id = job["id"];
\* a field a handler does not read is left out of the input
HdStart ==
    /\ spos = "idle"
    /\ invocations < MaxInvocations
    /\ invocations' = invocations + 1
    /\ job_id' = invocations + 1
    /\ \E i \in Inputs :
          /\ svc # "marker" => ~i.progress_webhook_url
          /\ svc = "worker" => ~i.result_upload_url
          /\ job_input' = i
    /\ payload' = "none"
    /\ temp_path' = 0
    /\ did' = NotYet
    /\ spos' = "validate"
    /\ UNCHANGED <<outsideServerless, svc, webhook_callback, temp_files>>

\* `if not file_url: return {"error": ...}`;
\* `if not result_upload_url: return {"error": ...}`
HdValidate ==
    /\ spos = "validate"
    /\ IF ~job_input.file_url
         THEN /\ payload' = "Missing required field: file_url"
              /\ spos' = "ret"
         ELSE IF svc # "worker" /\ ~job_input.result_upload_url
         THEN /\ payload' = "Missing required field: result_upload_url"
              /\ spos' = "ret"
         ELSE /\ spos' = IF svc = "marker" THEN "callback" ELSE "tempfile"
              /\ UNCHANGED payload
    /\ UNCHANGED <<outsideServerless, svc, job_input, job_id, webhook_callback,
                   temp_files, temp_path, did, invocations>>

\* marker: `if progress_webhook_url: set_webhook_callback(send_progress)
\* else: set_webhook_callback(None)`; send_progress is bound to job_id
HdSetCallback ==
    /\ spos = "callback"
    /\ webhook_callback' =
           IF job_input.progress_webhook_url THEN job_id ELSE None
    /\ did' = [did EXCEPT !.callback =
                  IF job_input.progress_webhook_url THEN "installed"
                  ELSE "none"]
    /\ spos' = "tempfile"
    /\ UNCHANGED <<outsideServerless, svc, job_input, job_id, payload,
                   temp_files, temp_path, invocations>>

\* `with tempfile.NamedTemporaryFile(delete=False, suffix=suffix) as f:`
\* creates the file; leaving the with block closes it and does not delete it
HdTempFile ==
    /\ spos = "tempfile"
    /\ temp_files' = temp_files \cup {job_id}
    /\ did' = [did EXCEPT !.tempfile = "created"]
    /\ spos' = "download"
    /\ UNCHANGED <<outsideServerless, svc, job_input, job_id, payload,
                   webhook_callback, temp_path, invocations>>

\* client.get, raise_for_status and f.write succeed; `temp_path = Path(f.name)`
HdDownloadOk ==
    /\ spos = "download"
    /\ did' = [did EXCEPT !.download = "ok"]
    /\ temp_path' = job_id
    /\ spos' = "convert"
    /\ UNCHANGED <<outsideServerless, svc, job_input, job_id, payload,
                   webhook_callback, temp_files, invocations>>

\* `except httpx.HTTPError as e: return {"error": f"Failed to download file: {e}"}`
\* from inside the with block, before the try/finally that unlinks the file
HdDownloadHttpError ==
    /\ spos = "download"
    /\ did' = [did EXCEPT !.download = "failed"]
    /\ payload' = "Failed to download file"
    /\ spos' = "ret"
    /\ UNCHANGED <<outsideServerless, svc, job_input, job_id,
                   webhook_callback, temp_files, temp_path, invocations>>

\* the download fails with an exception that is not an httpx.HTTPError
\* (httpx.InvalidURL for a malformed file_url, OSError from f.write): no
\* except clause takes it and it leaves the handler
HdDownloadRaise ==
    /\ spos = "download"
    /\ did' = [did EXCEPT !.download = "failed"]
    /\ payload' = "raise"
    /\ spos' = "ret"
    /\ UNCHANGED <<outsideServerless, svc, job_input, job_id,
                   webhook_callback, temp_files, temp_path, invocations>>

\* run_conversion_sync / convert_file returns; the handler of src/worker
\* returns the result itself
HdConvertOk ==
    /\ spos = "convert"
    /\ did' = [did EXCEPT !.conversion = "ok"]
    /\ IF svc = "worker"
         THEN payload' = "result" /\ spos' = "finally"
         ELSE spos' = "upload" /\ UNCHANGED payload
    /\ UNCHANGED <<outsideServerless, svc, job_input, job_id,
                   webhook_callback, temp_files, temp_path, invocations>>

\* `except Exception as e: return {"error": f"Conversion failed: {e}"}`
HdConvertRaise ==
    /\ spos = "convert"
    /\ did' = [did EXCEPT !.conversion = "failed"]
    /\ payload' = "Conversion failed"
    /\ spos' = "finally"
    /\ UNCHANGED <<outsideServerless, svc, job_input, job_id,
                   webhook_callback, temp_files, temp_path, invocations>>

\* upload_result_to_s3 returns True: `return {"s3_result": True}`
HdUploadOk ==
    /\ spos = "upload"
    /\ did' = [did EXCEPT !.upload = "ok"]
    /\ payload' = "s3_result"
    /\ spos' = "finally"
    /\ UNCHANGED <<outsideServerless, svc, job_input, job_id,
                   webhook_callback, temp_files, temp_path, invocations>>

\* upload_result_to_s3 catches the exception of httpx.put or
\* raise_for_status and returns False:
\* `return {"error": "Failed to upload result to S3"}`
HdUploadFail ==
    /\ spos = "upload"
    /\ did' = [did EXCEPT !.upload = "failed"]
    /\ payload' = "Failed to upload result to S3"
    /\ spos' = "finally"
    /\ UNCHANGED <<outsideServerless, svc, job_input, job_id,
                   webhook_callback, temp_files, temp_path, invocations>>

\* `finally: temp_path.unlink(missing_ok=True)`, and for marker
\* `set_webhook_callback(None)`
HdFinally ==
    /\ spos = "finally"
    /\ temp_files' = temp_files \ {temp_path}
    /\ webhook_callback' = IF svc = "marker" THEN None ELSE webhook_callback
    /\ did' = [did EXCEPT !.callback =
                  IF svc = "marker" /\ @ = "installed" THEN "cleared" ELSE @]
    /\ spos' = "ret"
    /\ UNCHANGED <<outsideServerless, svc, job_input, job_id, payload,
                   temp_path, invocations>>

\* the payload (or the exception) reaches the platform; the locals are gone
HdReturn ==
    /\ spos = "ret"
    /\ spos' = "idle"
    /\ job_input' = NoInput
    /\ temp_path' = 0
    /\ did' = NotYet
    /\ payload' = "none"
    /\ UNCHANGED <<outsideServerless, svc, job_id, webhook_callback,
                   temp_files, invocations>>

NextServerless ==
    \/ HdStart
    \/ HdValidate
    \/ HdSetCallback
    \/ HdTempFile
    \/ HdDownloadOk
    \/ HdDownloadHttpError
    \/ HdDownloadRaise
    \/ HdConvertOk
    \/ HdConvertRaise
    \/ HdUploadOk
    \/ HdUploadFail
    \/ HdFinally
    \/ HdReturn

(* -------------------- claims: serverless handlers --------------------- *)
\* C33: the marker and chandra handlers return {"s3_result": True} exactly
\* when the download, the conversion and the upload all succeeded; without
\* file_url or result_upload_url they return an error and neither create
\* the temporary file, download nor convert; when the download, the
\* conversion or the upload fails they return an error payload and raise
\* nothing.
C33_HandlerPayload ==
    (svc # "worker" /\ spos = "ret") =>
        /\ payload = "s3_result" <=>
               /\ did.download = "ok"
               /\ did.conversion = "ok"
               /\ did.upload = "ok"
        /\ (~job_input.file_url \/ ~job_input.result_upload_url) =>
               /\ payload \in ErrorPayloads
               /\ did.tempfile = "none"
               /\ did.download = "none"
               /\ did.conversion = "none"
        /\ "failed" \in {did.download, did.conversion, did.upload} =>
               payload \in ErrorPayloads

\* C34: when a handler that has created its temporary input file returns,
\* on whichever path, the file is no longer on disk.
C34_TempFileRemoved ==
    (spos = "ret" /\ did.tempfile = "created") => job_id \notin temp_files

\* C35: when a marker handler invocation that installed a progress callback
\* returns, the callback is cleared; no callback is installed between two
\* invocations, and the one installed during an invocation is its own.
C35_CallbackCleared ==
    svc = "marker" =>
        /\ (spos = "ret" /\ did.callback # "none") => webhook_callback = None
        /\ webhook_callback # None =>
               /\ webhook_callback = job_id
               /\ spos \notin {"idle", "ret"}

\* the manager of the lightonocr worker, whose process loads no model cache
InitVllm ==
    /\ worker = "marker"
    /\ model_cache = None
    /\ model_lock = 0
    /\ pc = [t \in Threads |-> "idle"]
    /\ op = [t \in Threads |-> "none"]
    /\ res = [t \in Threads |-> "none"]
    /\ hnd = [t \in Threads |-> None]
    /\ loading = [t \in Threads |-> 0]
    /\ elapsed = [t \in Threads |-> 0]
    /\ serverUp = FALSE
    /\ loadRuns = 0
    /\ loadsOk = 0
    /\ loadFails = 0
    /\ unloads = 0
    /\ calls = 0
    /\ gocReturned = {}
    /\ unloadTrue = 0
    /\ vllm_process = None
    /\ vllm_lock = 0
    /\ vpc = [t \in Threads |-> "idle"]
    /\ vop = [t \in Threads |-> "none"]
    /\ vres = [t \in Threads |-> "none"]
    /\ timeout = [t \in Threads |-> 0]
    /\ velapsed = [t \in Threads |-> 0]
    /\ iterAt = [t \in Threads |-> 0]
    /\ iters = [t \in Threads |-> 0]
    /\ iterAlive = [t \in Threads |-> FALSE]
    /\ myProc = [t \in Threads |-> 0]
    /\ sent = [t \in Threads |-> {}]
    /\ procState = [p \in Procs |-> "unborn"]
    /\ spawnCount = 0
    /\ passedProbe = {}
    /\ stoppedProcs = {}
    /\ vcalls = 0
    /\ graceExpired = [t \in Threads |-> FALSE]
    /\ jobs = [j \in AllIds |-> NoJob]
    /\ queue = [j \in AllIds |-> <<>>]
    /\ proc = [j \in AllIds |-> "none"]
    /\ slot = [j \in AllIds |-> "none"]
    /\ emitted = [j \in AllIds |-> 0]
    /\ nextJob = 0
    /\ reqs = 0
    /\ loop = 0
    /\ hpc = [c \in Clients |-> "idle"]
    /\ hop = [c \in Clients |-> "none"]
    /\ hjob = [c \in Clients |-> 0]
    /\ hseen = [c \in Clients |-> "none"]
    /\ hresult = [c \in Clients |-> 0]
    /\ hres = [c \in Clients |-> NoResp]
    /\ frames = [c \in Clients |-> <<>>]
    /\ html_ready_sent = [c \in Clients |-> FALSE]
    /\ success = [c \in Clients |-> FALSE]
    /\ ServerlessOff

SpecVllm == InitVllm /\ [][NextVllm]_vars

\* one of the model cache modules, in a process that runs no vLLM manager
InitCache ==
    /\ CacheInit
    /\ VllmInit
    /\ JobsInit
    /\ ServerlessOff

SpecCache == InitCache /\ [][NextCache]_vars

\* the marker worker's job endpoints, with its model cache and no vLLM
\* manager at work
InitJobs ==
    /\ worker = "marker"
    /\ model_cache = None
    /\ model_lock = 0
    /\ pc = [t \in Threads |-> "idle"]
    /\ op = [t \in Threads |-> "none"]
    /\ res = [t \in Threads |-> "none"]
    /\ hnd = [t \in Threads |-> None]
    /\ loading = [t \in Threads |-> 0]
    /\ elapsed = [t \in Threads |-> 0]
    /\ serverUp = FALSE
    /\ loadRuns = 0
    /\ loadsOk = 0
    /\ loadFails = 0
    /\ unloads = 0
    /\ calls = 0
    /\ gocReturned = {}
    /\ unloadTrue = 0
    /\ vllm_process = None
    /\ vllm_lock = 0
    /\ vpc = [t \in Threads |-> "idle"]
    /\ vop = [t \in Threads |-> "none"]
    /\ vres = [t \in Threads |-> "none"]
    /\ timeout = [t \in Threads |-> 0]
    /\ velapsed = [t \in Threads |-> 0]
    /\ iterAt = [t \in Threads |-> 0]
    /\ iters = [t \in Threads |-> 0]
    /\ iterAlive = [t \in Threads |-> FALSE]
    /\ myProc = [t \in Threads |-> 0]
    /\ sent = [t \in Threads |-> {}]
    /\ procState = [p \in Procs |-> "unborn"]
    /\ spawnCount = 0
    /\ passedProbe = {}
    /\ stoppedProcs = {}
    /\ vcalls = 0
    /\ graceExpired = [t \in Threads |-> FALSE]
    /\ jobs = [j \in AllIds |-> NoJob]
    /\ queue = [j \in AllIds |-> <<>>]
    /\ proc = [j \in AllIds |-> "none"]
    /\ slot = [j \in AllIds |-> "none"]
    /\ emitted = [j \in AllIds |-> 0]
    /\ nextJob = 0
    /\ reqs = 0
    /\ loop = 0
    /\ hpc = [c \in Clients |-> "idle"]
    /\ hop = [c \in Clients |-> "none"]
    /\ hjob = [c \in Clients |-> 0]
    /\ hseen = [c \in Clients |-> "none"]
    /\ hresult = [c \in Clients |-> 0]
    /\ hres = [c \in Clients |-> NoResp]
    /\ frames = [c \in Clients |-> <<>>]
    /\ html_ready_sent = [c \in Clients |-> FALSE]
    /\ success = [c \in Clients |-> FALSE]
    /\ ServerlessOff

SpecJobs == InitJobs /\ [][NextJobs]_vars

\* the event loop runs every coroutine that is ready, a thread that was
\* started runs on, a subprocess exits sooner or later and the manager then
\* records its outcome
FairJobs ==
    /\ \A c \in Clients :
          /\ WF_vars(ConvStart(c))
          /\ WF_vars(SgProgress(c))
          /\ WF_vars(SgCheck(c))
          /\ WF_vars(SgCompleted(c))
          /\ WF_vars(SgCleanup(c))
          /\ WF_vars(McSignal(c))
          /\ WF_vars(McWrite(c))
          /\ WF_vars(CnResult(c))
          /\ WF_vars(HReturn(c))
    /\ \A j \in JobIds :
          /\ WF_vars(WorkerFinish(j))
          /\ WF_vars(RecordOutcome(j))

SpecJobsFair == InitJobs /\ [][NextJobs]_vars /\ FairJobs

\* the marker worker with a job that was started before the run and is
\* running, taking converts and polls
InitIso ==
    /\ worker = "marker"
    /\ model_cache = None
    /\ model_lock = 0
    /\ pc = [t \in Threads |-> "idle"]
    /\ op = [t \in Threads |-> "none"]
    /\ res = [t \in Threads |-> "none"]
    /\ hnd = [t \in Threads |-> None]
    /\ loading = [t \in Threads |-> 0]
    /\ elapsed = [t \in Threads |-> 0]
    /\ serverUp = FALSE
    /\ loadRuns = 0
    /\ loadsOk = 0
    /\ loadFails = 0
    /\ unloads = 0
    /\ calls = 0
    /\ gocReturned = {}
    /\ unloadTrue = 0
    /\ vllm_process = None
    /\ vllm_lock = 0
    /\ vpc = [t \in Threads |-> "idle"]
    /\ vop = [t \in Threads |-> "none"]
    /\ vres = [t \in Threads |-> "none"]
    /\ timeout = [t \in Threads |-> 0]
    /\ velapsed = [t \in Threads |-> 0]
    /\ iterAt = [t \in Threads |-> 0]
    /\ iters = [t \in Threads |-> 0]
    /\ iterAlive = [t \in Threads |-> FALSE]
    /\ myProc = [t \in Threads |-> 0]
    /\ sent = [t \in Threads |-> {}]
    /\ procState = [p \in Procs |-> "unborn"]
    /\ spawnCount = 0
    /\ passedProbe = {}
    /\ stoppedProcs = {}
    /\ vcalls = 0
    /\ graceExpired = [t \in Threads |-> FALSE]
    /\ jobs = [j \in AllIds |->
                 IF j = OtherId THEN [NoJob EXCEPT !.status = "running"]
                 ELSE NoJob]
    /\ queue = [j \in AllIds |-> <<>>]
    /\ proc = [j \in AllIds |-> IF j = OtherId THEN "alive" ELSE "none"]
    /\ slot = [j \in AllIds |-> "none"]
    /\ emitted = [j \in AllIds |-> 0]
    /\ nextJob = 0
    /\ reqs = 0
    /\ loop = 0
    /\ hpc = [c \in Clients |-> "idle"]
    /\ hop = [c \in Clients |-> "none"]
    /\ hjob = [c \in Clients |-> 0]
    /\ hseen = [c \in Clients |-> "none"]
    /\ hresult = [c \in Clients |-> 0]
    /\ hres = [c \in Clients |-> NoResp]
    /\ frames = [c \in Clients |-> <<>>]
    /\ html_ready_sent = [c \in Clients |-> FALSE]
    /\ success = [c \in Clients |-> FALSE]
    /\ ServerlessOff

NextIso ==
    \/ \E c \in Clients :
          \/ ConvCreate(c) \/ ConvStart(c)
          \/ GetJobStatus(c)
          \/ HReturn(c)
    \/ \E j \in AllIds :
          \/ WorkerProgress(j) \/ WorkerHtmlReady(j) \/ WorkerFinish(j)
          \/ RecordOutcome(j)

SpecIso == InitIso /\ [][NextIso]_vars

\* the manager records a posted outcome, and a handler that holds the event
\* loop runs to its return
FairPoll ==
    /\ \A c \in Clients : WF_vars(ConvStart(c)) /\ WF_vars(HReturn(c))
    /\ \A j \in AllIds : WF_vars(RecordOutcome(j))

\* the marker worker taking converts and polls, and no cancel
SpecPollFair == InitJobs /\ [][NextIso]_vars /\ FairPoll

\* a process that runs one of the serverless handlers and nothing else
InitServerless ==
    /\ worker = "marker"
    /\ model_cache = None
    /\ model_lock = 0
    /\ pc = [t \in Threads |-> "idle"]
    /\ op = [t \in Threads |-> "none"]
    /\ res = [t \in Threads |-> "none"]
    /\ hnd = [t \in Threads |-> None]
    /\ loading = [t \in Threads |-> 0]
    /\ elapsed = [t \in Threads |-> 0]
    /\ serverUp = FALSE
    /\ loadRuns = 0
    /\ loadsOk = 0
    /\ loadFails = 0
    /\ unloads = 0
    /\ calls = 0
    /\ gocReturned = {}
    /\ unloadTrue = 0
    /\ VllmInit
    /\ JobsInit
    /\ ServerlessInit

SpecServerless == InitServerless /\ [][NextServerless]_vars

=============================================================================
